---- MODULE Spec2Model ----
(***************************************************************************)
(* Mr Chef: order intake (POST /api/orders) and the live order feed         *)
(* (GET /api/orders/stream), modelled from the route handlers.              *)
(*                                                                          *)
(* Every `await` on the store is one atomic store step; handlers that run   *)
(* at the same time interleave between their awaits (the store client is    *)
(* the asynchronous libsql one, src/src/db/index.ts).                       *)
(***************************************************************************)
EXTENDS Integers, Sequences, FiniteSets, TLC

(***************************************************************************)
(* Bounds of the model.                                                     *)
(***************************************************************************)
\* seconds in a (scaled) calendar day; the real day has 86400
SecPerDay == 2
\* the clock stops advancing at this second
MaxClock == 3
\* order rows the store may hold in the two-request specification
MaxOrders == 2
\* order rows the store may hold when every request body is enumerated
MaxIntakeOrders == 1
\* line items of one request body
MaxLines == 2
\* order rows the store may hold while the feed is observed
MaxFeedOrders == 1
\* runs of the feed's 2-second interval callback
MaxTicks == 2
\* runs of the feed's 30-second interval callback
MaxBeats == 1
\* checkForUpdates calls in progress at once while convergence is observed
MaxInflight == 2
\* order rows the store may hold while order statuses are changed
MaxKitchenOrders == 2
\* calendar dates a back-office request can name
MaxDates == 2
\* attendance rows ever inserted
MaxAttendanceIds == 3
\* pieces of a request path: "/" and the words between
MaxPathTokens == 4
\* rows of the expenses table
MaxExpenses == 2
\* rows of the staff table
MaxStaff == 4
\* orders a snapshot shown by the kitchen page can hold
MaxPageOrders == 2
\* EventSource objects the kitchen page creates
MaxSources == 3

\* integer columns in { mode: 'timestamp' } hold seconds: Date ms / 1000
MsPerSec == 1000
\* a menuItemId that no row of menu_items has (the tests use 999)
UnknownItemId == 999

DayMs == SecPerDay * MsPerSec

(***************************************************************************)
(* The menu_items table as the tests seed it: id, name, price.              *)
(***************************************************************************)
SeedMenu ==
  << [id |-> 1, name |-> "Fried Noodles", price |-> 1000],
     [id |-> 2, name |-> "Gyoza", price |-> 800] >>

Procs == {1, 2}

ItemIds == {SeedMenu[i].id : i \in 1..Len(SeedMenu)} \cup {UnknownItemId}

\* quantities of a line
Quantities == {1, 2}

Lines == [menuItemId : ItemIds, quantity : Quantities]

RECURSIVE SeqsUpTo(_, _)
SeqsUpTo(S, n) ==
  IF n = 0 THEN {<<>>}
  ELSE LET shorter == SeqsUpTo(S, n - 1)
       IN  shorter \cup {Append(s, x) : s \in {t \in shorter : Len(t) = n - 1}, x \in S}

\* request bodies: items missing, items not an array, or an array of lines
Bodies ==
  {[kind |-> "missing", items |-> <<>>], [kind |-> "notArray", items |-> <<>>]}
    \cup {[kind |-> "array", items |-> s] : s \in SeqsUpTo(Lines, MaxLines)}

\* the bodies of the two-request specification: one line, and two lines
SmallBodies ==
  {[kind |-> "array", items |-> <<[menuItemId |-> 1, quantity |-> 1]>>],
   [kind |-> "array", items |-> <<[menuItemId |-> 1, quantity |-> 2],
                                  [menuItemId |-> 2, quantity |-> 1]>>]}

\* the body submitted while the feed is observed: two lines
FeedBodies == {b \in SmallBodies : Len(b.items) = 2}

\* a body of one line
OneLineBodies == {b \in SmallBodies : Len(b.items) = 1}

NoBody == [kind |-> "none", items |-> <<>>]

(***************************************************************************)
(* Pure helpers of route.ts.                                                *)
(***************************************************************************)
getStartOfDay(date) == (date \div DayMs) * DayMs

\* setHours(23, 59, 59, 999)
getEndOfDay(date) == getStartOfDay(date) + DayMs - 1

\* drizzle's timestamp column: a Date is stored (and bound in a comparison)
\* as whole seconds, Math.floor(ms / 1000)
ToDriverValue(date) == date \div MsPerSec

RECURSIVE Digits(_)
Digits(n) == IF n < 10 THEN <<n>> ELSE Append(Digits(n \div 10), n % 10)

RECURSIVE padStart(_, _, _)
padStart(s, len, ch) == IF Len(s) >= len THEN s ELSE padStart(<<ch>> \o s, len, ch)

generateOrderNumber(count) == padStart(Digits(count + 1), 3, 0)

RECURSIVE SumSeq(_)
SumSeq(s) == IF s = <<>> THEN 0 ELSE Head(s) + SumSeq(Tail(s))

VARIABLES
  clock,       \* server time in whole seconds (new Date() is clock * MsPerSec + a fraction)
  orders,      \* the orders table, in insertion order
  orderItems,  \* the order_items table, in insertion order
  pc,          \* per request slot: where the POST handler is
  req,         \* per request slot: the parsed body
  total,       \* per request slot: the computed total
  cnt,         \* per request slot: todaysOrders.length
  orderId,     \* per request slot: id of the inserted order row
  idx,         \* per request slot: next line item to insert
  resp,        \* per request slot: the last response
  connected,          \* the feed: GET was called and start(controller) ran
  cancelled,          \* the feed: the client cancelled the stream
  isControllerClosed, \* the feed: the flag of start()'s closure
  lastDataHash,       \* the feed: the serialized snapshot last sent
  reads,              \* the feed: the checkForUpdates calls in progress
  log,                \* the feed: the events enqueued on the stream, in order
  nTicks,             \* the feed: runs of the 2-second interval callback
  nBeats,             \* the feed: runs of the 30-second interval callback
  menu,        \* the menu_items table
  prices,      \* per request slot: menuItemPriceMap, as the price of each line
  patch,       \* the PATCH handler: where it is, its parsed body, its last response
  staff,       \* the staff table
  attendance,  \* the attendance table, in insertion order
  attSeq,      \* the attendance table's AUTOINCREMENT counter
  att,         \* per request slot: the attendance handler's position, input, response
  balances,    \* the daily_balance table, in insertion order
  balSeq,      \* the daily_balance table's AUTOINCREMENT counter
  bal,         \* the balance POST handler's position, input, response
  gate,        \* the session gate: the last request and what was decided for it
  login,       \* per attempt slot: the login request and its response
  expenses,    \* the expenses table, in insertion order
  expGet,      \* the expenses GET handler: its query and its response
  mounted,          \* the kitchen page: "no" before it is rendered, "yes", then "gone"
  pageOrders,       \* the kitchen page: the orders state
  isConnected,      \* the kitchen page: the isConnected state
  pageError,        \* the kitchen page: the error state
  sources,          \* the kitchen page: the EventSource objects it created, "open" or "closed"
  eventSourceRef,   \* the kitchen page: eventSourceRef.current, 0 for null
  timers,           \* the kitchen page: setTimeout(connectSSE, 3000) calls not yet run
  seenOrderIds,     \* the kitchen page: seenOrderIdsRef.current
  isInitialLoad,    \* the kitchen page: isInitialLoadRef.current
  notifications,    \* the kitchen page: the ids showOrderNotification was called for, in order
  firstSnapshotIds, \* the ids of the first snapshot the page received, <<ids>>, or <<>>
  delivered,        \* events of the feed's stream the browser has dispatched to the page
  staffSeq,    \* the staff table's AUTOINCREMENT counter
  stf,         \* the staff handlers: where DELETE is, its parameter, the last response
  dash         \* the dashboard GET handler: where it is, its date, what it selected

feedVars ==
  <<connected, cancelled, isControllerClosed, lastDataHash, reads, log, nTicks, nBeats>>

postVars == <<pc, req, total, cnt, orderId, idx, resp, prices>>

kitchenVars == <<menu, patch>>

officeVars == <<staff, attendance, attSeq, att, balances, balSeq, bal>>

authVars == <<gate, login>>

bookVars == <<expenses, expGet>>

pageVars ==
  <<mounted, pageOrders, isConnected, pageError, sources, eventSourceRef, timers,
    seenOrderIds, isInitialLoad, notifications, firstSnapshotIds, delivered>>

\* the expenses handlers and the kitchen display page
hrVars == <<staffSeq, stf>>

moreVars == <<bookVars, pageVars, hrVars, dash>>

otherVars == <<kitchenVars, officeVars, authVars, moreVars>>

\* everything the back-office and session handlers leave alone
storeSide == <<clock, orders, orderItems, postVars, feedVars, kitchenVars>>

orderSide == <<storeSide, moreVars>>

vars == <<clock, orders, orderItems, postVars, feedVars, otherVars>>

NoResp == [status |-> 0, error |-> "", orderId |-> 0, orderNumber |-> <<>>]

\* a date string of the expenses API: "" (the parameter is not there) is <<>>, a
\* string that is not YYYY-MM-DD is <<0>>, and "YYYY-MM-DD" is <<month, day>>,
\* compared as strings are: piece by piece from the left
NoDateString == <<>>

BadDateString == <<0>>

\* the expenses GET handler before any request
NoExpGet ==
  [startDate |-> NoDateString, endDate |-> NoDateString, category |-> "",
   status |-> 0, error |-> "", expenses |-> <<>>, grandTotal |-> 0]

\* the PATCH handler at rest: no body parsed, no response yet
NoPatch ==
  [pc |-> "idle", orderId |-> 0, status |-> "", found |-> "", code |-> 0, error |-> ""]

\* the staff table as the attendance tests seed it
SeedStaff ==
  << [id |-> 1, name |-> "John Doe", active |-> TRUE],
     [id |-> 2, name |-> "Jane Smith", active |-> TRUE],
     [id |-> 3, name |-> "Inactive Staff", active |-> FALSE] >>

AttProcs == {1, 2}

\* an attendance handler at rest: no request taken, no response yet.  A
\* staffId 0 and a status "" stand for a missing value.
NoAtt ==
  [pc |-> "idle", method |-> "", staffId |-> 0, date |-> 0, status |-> "",
   existing |-> 0, code |-> 0, error |-> ""]

\* JSON values of a balance field: absent from the body, a number, or a value
\* of another type (null, a string, ...); and the column value NULL
Undefined == [kind |-> "undefined", value |-> 0]

NotNumber == [kind |-> "other", value |-> 0]

Null == [kind |-> "null", value |-> 0]

Num(n) == [kind |-> "number", value |-> n]

\* the balance handler at rest
NoBal ==
  [pc |-> "idle", date |-> 0, openingBalance |-> Undefined, closingBalance |-> Undefined,
   existing |-> 0, code |-> 0, error |-> "", result |-> <<>>]

\* the dashboard handler before any request
NoDash ==
  [pc |-> "idle", now |-> 0, date |-> 0, dayOrders |-> <<>>, topItems |-> {},
   code |-> 0, error |-> ""]

\* the staff handlers before any request
NoStf == [pc |-> "idle", id |-> Undefined, staffId |-> 0, code |-> 0, error |-> ""]

\* the session gate before any request
NoGate == [pathname |-> <<>>, cookie |-> <<>>, decision |-> [kind |-> "none", to |-> <<>>]]

LoginProcs == {1, 2}

\* a login slot before any attempt
NoLogin ==
  [username |-> "", password |-> "", status |-> 0, error |-> "", cookie |-> <<>>]

\* an order placed before the connection, as the stream's tests insert it
SeededOrders ==
  << [id |-> 1, orderNumber |-> <<0, 0, 1>>, total |-> 1800, status |-> "pending",
      createdAt |-> 0, updatedAt |-> 0] >>

SeededOrderItems ==
  << [id |-> 1, orderId |-> 1, menuItemId |-> 1, quantity |-> 1, priceAtTime |-> 1000],
     [id |-> 2, orderId |-> 1, menuItemId |-> 2, quantity |-> 1, priceAtTime |-> 800] >>

InitCore(os, its, g) ==
  /\ clock = 0
  /\ orders = os
  /\ orderItems = its
  /\ pc = [p \in Procs |-> "idle"]
  /\ req = [p \in Procs |-> NoBody]
  /\ total = [p \in Procs |-> 0]
  /\ cnt = [p \in Procs |-> 0]
  /\ orderId = [p \in Procs |-> 0]
  /\ idx = [p \in Procs |-> 0]
  /\ resp = [p \in Procs |-> NoResp]
  /\ connected = FALSE
  /\ cancelled = FALSE
  /\ isControllerClosed = FALSE
  /\ lastDataHash = <<>>
  /\ reads = {}
  /\ log = <<>>
  /\ nTicks = 0
  /\ nBeats = 0
  /\ menu = SeedMenu
  /\ prices = [p \in Procs |-> <<>>]
  /\ patch = NoPatch
  /\ staff = SeedStaff
  /\ attendance = <<>>
  /\ attSeq = 0
  /\ att = [s \in AttProcs |-> NoAtt]
  /\ balances = <<>>
  /\ balSeq = 0
  /\ bal = NoBal
  /\ gate = g
  /\ login = [s \in LoginProcs |-> NoLogin]

\* no expense recorded, no expenses query
ExpensesIdle ==
  /\ expenses = <<>>
  /\ expGet = NoExpGet

\* setError(null)
NoError == ""

\* the kitchen page before it is rendered: the initial values of useState and useRef
PageIdle ==
  /\ mounted = "no"
  /\ pageOrders = <<>>
  /\ isConnected = FALSE
  /\ pageError = NoError
  /\ sources = <<>>
  /\ eventSourceRef = 0
  /\ timers = 0
  /\ seenOrderIds = {}
  /\ isInitialLoad = TRUE
  /\ notifications = <<>>
  /\ firstSnapshotIds = <<>>
  /\ delivered = 0

\* the staff table as seeded, no staff request
StaffIdle ==
  /\ staffSeq = Len(SeedStaff)
  /\ stf = NoStf

InitMore == ExpensesIdle /\ PageIdle /\ StaffIdle /\ dash = NoDash

InitAll(os, its, g) == InitCore(os, its, g) /\ InitMore

\* no request at the session gate
InitWith(os, its) == InitAll(os, its, NoGate)

\* the store empty
Init == InitWith(<<>>, <<>>)

\* the store holding one order with its two line items
InitKitchen == InitWith(SeededOrders, SeededOrderItems)

\* the store empty, or holding one order of today with its two line items
InitLife == InitWith(<<>>, <<>>) \/ InitWith(SeededOrders, SeededOrderItems)

NowMs == clock * MsPerSec

\* time passes
Tick ==
  /\ clock < MaxClock
  /\ clock' = clock + 1
  /\ UNCHANGED <<orders, orderItems, pc, req, total, cnt, orderId, idx, resp, prices>>
  /\ UNCHANGED <<feedVars, otherVars>>

(***************************************************************************)
(* POST /api/orders                                                         *)
(***************************************************************************)
Known(id) == \E i \in 1..Len(menu) : menu[i].id = id

\* allMenuItems.filter((item) => menuItemIds.includes(item.id))
menuItemsData(items) ==
  SelectSeq(menu, LAMBDA m : \E i \in 1..Len(items) : items[i].menuItemId = m.id)

\* menuItemPriceMap.get(id); -1 stands for undefined
menuItemPriceMap(items, id) ==
  LET data == menuItemsData(items)
  IN  IF \E i \in 1..Len(data) : data[i].id = id
      THEN (CHOOSE m \in {data[i] : i \in 1..Len(data)} : m.id = id).price
      ELSE -1

\* the validation without the existence check of the referenced menu items
ValidationErrorNoLookup(body) ==
  IF body.kind # "array" \/ Len(body.items) = 0
  THEN "Order must contain at least one item"
  ELSE ""

\* the validation of the request: the error message, or "" when it passes
ValidationError(body) ==
  IF body.kind # "array" \/ Len(body.items) = 0
  THEN "Order must contain at least one item"
  ELSE IF Len(menuItemsData(body.items)) # Len(body.items)
  THEN "One or more menu items not found"
  ELSE IF \E i \in 1..Len(body.items) :
            menuItemPriceMap(body.items, body.items[i].menuItemId) = -1
  THEN "Menu item not found"
  ELSE ""

\* menuItemPriceMap.get(item.menuItemId), for each line
LinePrices(items) ==
  [i \in 1..Len(items) |-> menuItemPriceMap(items, items[i].menuItemId)]

\* total += price * item.quantity, over the lines
OrderTotal(items) ==
  SumSeq([i \in 1..Len(items) |->
            menuItemPriceMap(items, items[i].menuItemId) * items[i].quantity])

\* gte(orders.createdAt, startOfDay) and lt(orders.createdAt, endOfDay)
InTodaysWindow(row, now) ==
  /\ row.createdAt >= ToDriverValue(getStartOfDay(now))
  /\ row.createdAt < ToDriverValue(getEndOfDay(now))

todaysOrders(now) == SelectSeq(orders, LAMBDA o : InTodaysWindow(o, now))

InFlight == {p \in Procs : pc[p] \in {"parsed", "count", "insert"}}

\* the request arrives and its JSON body is parsed
PostReceive(p, body, cap) ==
  /\ pc[p] = "idle"
  /\ Len(orders) + Cardinality(InFlight) < cap
  /\ pc' = [pc EXCEPT ![p] = "parsed"]
  /\ req' = [req EXCEPT ![p] = body]
  /\ resp' = [resp EXCEPT ![p] = NoResp]
  /\ UNCHANGED <<clock, orders, orderItems, total, cnt, orderId, idx, prices>>
  /\ UNCHANGED <<feedVars, otherVars>>

\* the body check, the menu read, the existence check and the total
PostValidate(p) ==
  /\ pc[p] = "parsed"
  /\ LET err == ValidationError(req[p])
     IN  IF err # ""
         THEN /\ resp' = [resp EXCEPT ![p] = [NoResp EXCEPT !.status = 400, !.error = err]]
              /\ pc' = [pc EXCEPT ![p] = "idle"]
              /\ UNCHANGED <<total, prices>>
         ELSE /\ total' = [total EXCEPT ![p] = OrderTotal(req[p].items)]
              /\ prices' = [prices EXCEPT ![p] = LinePrices(req[p].items)]
              /\ pc' = [pc EXCEPT ![p] = "count"]
              /\ UNCHANGED resp
  /\ UNCHANGED <<clock, orders, orderItems, req, cnt, orderId, idx>>
  /\ UNCHANGED <<feedVars, otherVars>>

\* const now = new Date(); todaysOrders = select ... where createdAt in today's window
PostCount(p) ==
  /\ pc[p] = "count"
  /\ cnt' = [cnt EXCEPT ![p] = Len(todaysOrders(NowMs))]
  /\ pc' = [pc EXCEPT ![p] = "insert"]
  /\ UNCHANGED <<clock, orders, orderItems, req, total, orderId, idx, resp, prices>>
  /\ UNCHANGED <<feedVars, otherVars>>

OrderRow(id, number, tot, now) ==
  [id |-> id, orderNumber |-> number, total |-> tot, status |-> "pending",
   createdAt |-> ToDriverValue(now), updatedAt |-> ToDriverValue(now)]

\* the variant a guarded counter would give: the count is taken in the insert step
PostInsertOrderRecount(p) ==
  /\ pc[p] = "insert"
  /\ orders' = Append(orders,
        OrderRow(Len(orders) + 1, generateOrderNumber(Len(todaysOrders(NowMs))),
                 total[p], NowMs))
  /\ orderId' = [orderId EXCEPT ![p] = Len(orders) + 1]
  /\ idx' = [idx EXCEPT ![p] = 1]
  /\ pc' = [pc EXCEPT ![p] = "items"]
  /\ UNCHANGED <<clock, orderItems, req, total, cnt, resp, prices>>
  /\ UNCHANGED <<feedVars, otherVars>>

\* orderNumber = generateOrderNumber(todaysOrders.length); insert the order row
PostInsertOrder(p) ==
  /\ pc[p] = "insert"
  /\ orders' = Append(orders,
        OrderRow(Len(orders) + 1, generateOrderNumber(cnt[p]), total[p], NowMs))
  /\ orderId' = [orderId EXCEPT ![p] = Len(orders) + 1]
  /\ idx' = [idx EXCEPT ![p] = 1]
  /\ pc' = [pc EXCEPT ![p] = "items"]
  /\ UNCHANGED <<clock, orderItems, req, total, cnt, resp, prices>>
  /\ UNCHANGED <<feedVars, otherVars>>

\* one iteration of the loop over body.items; after the last one, the response
PostInsertItem(p) ==
  /\ pc[p] = "items"
  /\ LET item == req[p].items[idx[p]]
     IN  orderItems' = Append(orderItems,
           [id |-> Len(orderItems) + 1, orderId |-> orderId[p],
            menuItemId |-> item.menuItemId, quantity |-> item.quantity,
            priceAtTime |-> prices[p][idx[p]]])
  /\ IF idx[p] = Len(req[p].items)
     THEN /\ resp' = [resp EXCEPT ![p] =
                 [NoResp EXCEPT !.status = 200, !.orderId = orderId[p],
                                !.orderNumber = orders[orderId[p]].orderNumber]]
          /\ pc' = [pc EXCEPT ![p] = "idle"]
          /\ idx' = [idx EXCEPT ![p] = 0]
          /\ total' = [total EXCEPT ![p] = 0]
          /\ cnt' = [cnt EXCEPT ![p] = 0]
          /\ orderId' = [orderId EXCEPT ![p] = 0]
          /\ prices' = [prices EXCEPT ![p] = <<>>]
     ELSE /\ idx' = [idx EXCEPT ![p] = idx[p] + 1]
          /\ UNCHANGED <<pc, resp, total, cnt, orderId, prices>>
  /\ UNCHANGED <<clock, orders, req>>
  /\ UNCHANGED <<feedVars, otherVars>>

\* a store call throws: the catch block answers 500, nothing is rolled back
PostStoreError(p) ==
  /\ pc[p] \in {"parsed", "count", "insert", "items"}
  /\ resp' = [resp EXCEPT ![p] =
        [NoResp EXCEPT !.status = 500, !.error = "Failed to create order"]]
  /\ pc' = [pc EXCEPT ![p] = "idle"]
  /\ idx' = [idx EXCEPT ![p] = 0]
  /\ total' = [total EXCEPT ![p] = 0]
  /\ cnt' = [cnt EXCEPT ![p] = 0]
  /\ orderId' = [orderId EXCEPT ![p] = 0]
  /\ prices' = [prices EXCEPT ![p] = <<>>]
  /\ UNCHANGED <<clock, orders, orderItems, req>>
  /\ UNCHANGED <<feedVars, otherVars>>

(***************************************************************************)
(* PATCH /api/orders: one request at a time.  A body's orderId 0 and status  *)
(* "" stand for every falsy value of the field (missing, null, 0, '').       *)
(***************************************************************************)
validStatuses == {"pending", "preparing", "ready", "served"}

\* the statuses the kitchen display's buttons request
activeStatuses == {"pending", "served"}

\* 0, the ids of the orders of the seeded store, and an id no order has
PatchIds == 0..(Len(SeededOrders) + 1)

PatchStatuses == validStatuses \cup {"", "cancelled"}

OrderExists(id) == \E i \in 1..Len(orders) : orders[i].id = id

\* the row select().from(orders).where(eq(orders.id, id)) returns first
existingOrder(id) == orders[CHOOSE i \in 1..Len(orders) : orders[i].id = id]

\* the request arrives and its JSON body is parsed
PatchReceive(id, st) ==
  /\ patch.pc = "idle"
  /\ patch' = [NoPatch EXCEPT !.pc = "parsed", !.orderId = id, !.status = st]
  /\ UNCHANGED <<clock, orders, orderItems, postVars, feedVars, menu, officeVars, authVars, moreVars>>

\* the body checks without the select of the addressed order
PatchLookupNoSelect ==
  /\ patch.pc = "parsed"
  /\ patch' =
       IF patch.orderId = 0 \/ patch.status = ""
       THEN [patch EXCEPT !.pc = "idle", !.code = 400,
                          !.error = "Order ID and status are required"]
       ELSE IF patch.status \notin validStatuses
       THEN [patch EXCEPT !.pc = "idle", !.code = 400, !.error = "Invalid status"]
       ELSE [patch EXCEPT !.pc = "update"]
  /\ UNCHANGED <<clock, orders, orderItems, postVars, feedVars, menu, officeVars, authVars, moreVars>>

\* the two checks of the body, then the select of the addressed order
PatchLookup ==
  /\ patch.pc = "parsed"
  /\ patch' =
       IF patch.orderId = 0 \/ patch.status = ""
       THEN [patch EXCEPT !.pc = "idle", !.code = 400,
                          !.error = "Order ID and status are required"]
       ELSE IF patch.status \notin validStatuses
       THEN [patch EXCEPT !.pc = "idle", !.code = 400, !.error = "Invalid status"]
       ELSE IF ~OrderExists(patch.orderId)
       THEN [patch EXCEPT !.pc = "idle", !.code = 404, !.error = "Order not found"]
       ELSE [patch EXCEPT !.pc = "update", !.found = existingOrder(patch.orderId).status]
  /\ UNCHANGED <<clock, orders, orderItems, postVars, feedVars, menu, officeVars, authVars, moreVars>>

\* the position of a status in the kitchen's flow
statusRank(st) ==
  CASE st = "pending" -> 1 [] st = "preparing" -> 2 [] st = "ready" -> 3 [] OTHER -> 4

\* an update that only lets an order move forward in the flow
PatchUpdateForwardOnly ==
  /\ patch.pc = "update"
  /\ orders' = [i \in 1..Len(orders) |->
        IF orders[i].id = patch.orderId /\ statusRank(orders[i].status) < statusRank(patch.status)
        THEN [orders[i] EXCEPT !.status = patch.status, !.updatedAt = ToDriverValue(NowMs)]
        ELSE orders[i]]
  /\ patch' = [patch EXCEPT !.pc = "idle", !.code = 200]
  /\ UNCHANGED <<clock, orderItems, postVars, feedVars, menu, officeVars, authVars, moreVars>>

\* an update without its where clause
PatchUpdateAllRows ==
  /\ patch.pc = "update"
  /\ orders' = [i \in 1..Len(orders) |->
        [orders[i] EXCEPT !.status = patch.status, !.updatedAt = ToDriverValue(NowMs)]]
  /\ patch' = [patch EXCEPT !.pc = "idle", !.code = 200]
  /\ UNCHANGED <<clock, orderItems, postVars, feedVars, menu, officeVars, authVars, moreVars>>

\* update(orders).set({ status, updatedAt: new Date() }).where(eq(orders.id, orderId))
PatchUpdate ==
  /\ patch.pc = "update"
  /\ orders' = [i \in 1..Len(orders) |->
        IF orders[i].id = patch.orderId
        THEN [orders[i] EXCEPT !.status = patch.status, !.updatedAt = ToDriverValue(NowMs)]
        ELSE orders[i]]
  /\ patch' = [patch EXCEPT !.pc = "idle", !.code = 200]
  /\ UNCHANGED <<clock, orderItems, postVars, feedVars, menu, officeVars, authVars, moreVars>>

\* a store call throws: the catch block answers 500
PatchStoreError ==
  /\ patch.pc \in {"parsed", "update"}
  /\ patch' = [patch EXCEPT !.pc = "idle", !.code = 500, !.error = "Failed to update order"]
  /\ UNCHANGED <<clock, orders, orderItems, postVars, feedVars, menu, officeVars, authVars, moreVars>>

\* the price a menu item has now
MenuPriceNow(id) == (CHOOSE m \in {menu[k] : k \in 1..Len(menu)} : m.id = id).price

\* the prices a menu item is given while orders exist
PricesOf(i) == {SeedMenu[i].price, SeedMenu[i].price + 200}

\* the price of a menu item is edited in the menu_items table
MenuPriceChange ==
  /\ \E i \in 1..Len(menu) : \E pr \in PricesOf(i) :
       /\ menu[i].price # pr
       /\ menu' = [menu EXCEPT ![i].price = pr]
  /\ UNCHANGED <<clock, orders, orderItems, postVars, feedVars, patch, officeVars, authVars, moreVars>>

(***************************************************************************)
(* /api/attendance.  A date is a well-formed YYYY-MM-DD text, numbered in    *)
(* calendar order (the order gte and lte compare the texts in); 0 is a       *)
(* missing date (undefined, null, '') and BadDate a text isValidDate rejects. *)
(***************************************************************************)
VALID_STATUSES == {"present", "absent", "day_off"}

BadDate == 0 - 1

isValidDate(date) == date >= 1

\* the dates a request can carry
DateInputs == {BadDate} \cup (0..MaxDates)

\* a staffId that no row of staff has
UnknownStaffId == Len(SeedStaff) + 1

\* the rows select().from(attendance).where(staffId = .. and date = ..) returns
AttendanceOf(staffId, date) ==
  SelectSeq(attendance, LAMBDA r : r.staffId = staffId /\ r.date = date)

HasRow(id) == \E i \in 1..Len(attendance) : attendance[i].id = id

\* GET: the active staff, and the attendance rows with startDate <= date <= endDate
AttendanceGet(startDate, endDate) ==
  [staff |-> SelectSeq(staff, LAMBDA m : m.active),
   attendance |-> SelectSeq(attendance, LAMBDA r : r.date >= startDate /\ r.date <= endDate)]

attRest == <<balances, balSeq, bal, orderSide, authVars>>

\* POST: the request arrives and its JSON body is parsed
AttPostReceive(s, staffId, date, status) ==
  /\ att[s].pc = "idle"
  /\ attSeq < MaxAttendanceIds
  /\ att' = [att EXCEPT ![s] =
        [NoAtt EXCEPT !.pc = "parsed", !.method = "POST", !.staffId = staffId,
                      !.date = date, !.status = status]]
  /\ UNCHANGED <<staff, attendance, attSeq, attRest>>

\* POST: the three checks of the body, then the select of the staff member
AttPostStaff(s) ==
  /\ att[s].pc = "parsed"
  /\ att[s].method = "POST"
  /\ att' = [att EXCEPT ![s] =
        IF att[s].staffId = 0
        THEN [@ EXCEPT !.pc = "idle", !.code = 400,
                       !.error = "staffId is required and must be a number"]
        ELSE IF ~isValidDate(att[s].date)
        THEN [@ EXCEPT !.pc = "idle", !.code = 400,
                       !.error = "date is required in YYYY-MM-DD format"]
        ELSE IF att[s].status \notin VALID_STATUSES
        THEN [@ EXCEPT !.pc = "idle", !.code = 400,
                       !.error = "status must be one of: present, absent, day_off"]
        ELSE IF ~\E i \in 1..Len(staff) : staff[i].id = att[s].staffId
        THEN [@ EXCEPT !.pc = "idle", !.code = 404, !.error = "Staff member not found"]
        ELSE [@ EXCEPT !.pc = "find"]]
  /\ UNCHANGED <<staff, attendance, attSeq, attRest>>

\* a POST handler that never looks for the pair's record
AttPostFindNothing(s) ==
  /\ att[s].pc = "find"
  /\ att' = [att EXCEPT ![s] = [@ EXCEPT !.pc = "write", !.existing = 0]]
  /\ UNCHANGED <<staff, attendance, attSeq, attRest>>

\* POST: the select of the record of this staff member and date
AttPostFind(s) ==
  /\ att[s].pc = "find"
  /\ LET rows == AttendanceOf(att[s].staffId, att[s].date)
     IN  att' = [att EXCEPT ![s] =
           [@ EXCEPT !.pc = "write",
                     !.existing = IF rows = <<>> THEN 0 ELSE rows[1].id]]
  /\ UNCHANGED <<staff, attendance, attSeq, attRest>>

\* POST: the update of the record found, or the insert of a new one.  An
\* update that matches no row returns no record, and the response built from
\* undefined is an empty 200 or a throw caught as 500, depending on the runtime.
AttPostWrite(s) ==
  /\ att[s].pc = "write"
  /\ att[s].method = "POST"
  /\ IF att[s].existing # 0
     THEN /\ attendance' = [i \in 1..Len(attendance) |->
                IF attendance[i].id = att[s].existing
                THEN [attendance[i] EXCEPT !.status = att[s].status]
                ELSE attendance[i]]
          /\ \E c \in IF HasRow(att[s].existing) THEN {200} ELSE {200, 500} :
               att' = [att EXCEPT ![s] =
                 [@ EXCEPT !.pc = "idle", !.code = c,
                           !.error = IF c = 500 THEN "Failed to set attendance" ELSE ""]]
          /\ UNCHANGED attSeq
     ELSE /\ attendance' = Append(attendance,
                [id |-> attSeq + 1, staffId |-> att[s].staffId, date |-> att[s].date,
                 status |-> att[s].status])
          /\ attSeq' = attSeq + 1
          /\ att' = [att EXCEPT ![s] = [@ EXCEPT !.pc = "idle", !.code = 201]]
  /\ UNCHANGED <<staff, attRest>>

\* DELETE: the request arrives with its staffId and date parameters
AttDeleteReceive(s, staffId, date) ==
  /\ att[s].pc = "idle"
  /\ att' = [att EXCEPT ![s] =
        [NoAtt EXCEPT !.pc = "parsed", !.method = "DELETE", !.staffId = staffId,
                      !.date = date]]
  /\ UNCHANGED <<staff, attendance, attSeq, attRest>>

\* DELETE: the checks of the parameters, then the select of the record
AttDeleteFind(s) ==
  /\ att[s].pc = "parsed"
  /\ att[s].method = "DELETE"
  /\ LET rows == AttendanceOf(att[s].staffId, att[s].date)
     IN  att' = [att EXCEPT ![s] =
           IF att[s].staffId = 0 \/ att[s].date = 0
           THEN [@ EXCEPT !.pc = "idle", !.code = 400, !.error = "staffId and date are required"]
           ELSE IF ~isValidDate(att[s].date)
           THEN [@ EXCEPT !.pc = "idle", !.code = 400,
                          !.error = "Invalid date format. Use YYYY-MM-DD"]
           ELSE IF rows = <<>>
           THEN [@ EXCEPT !.pc = "idle", !.code = 404, !.error = "Attendance record not found"]
           ELSE [@ EXCEPT !.pc = "write", !.existing = rows[1].id]]
  /\ UNCHANGED <<staff, attendance, attSeq, attRest>>

\* DELETE: delete(attendance).where(eq(attendance.id, existing.id))
AttDeleteWrite(s) ==
  /\ att[s].pc = "write"
  /\ att[s].method = "DELETE"
  /\ attendance' = SelectSeq(attendance, LAMBDA r : r.id # att[s].existing)
  /\ att' = [att EXCEPT ![s] = [@ EXCEPT !.pc = "idle", !.code = 200]]
  /\ UNCHANGED <<staff, attSeq, attRest>>

(***************************************************************************)
(* POST /api/balance: one request at a time.                                *)
(***************************************************************************)
\* the rows select().from(dailyBalance).where(eq(dailyBalance.date, date)) returns
BalanceOf(date) == SelectSeq(balances, LAMBDA r : r.date = date)

balRest == <<staff, attendance, attSeq, att, orderSide, authVars>>

\* the request arrives and its JSON body is parsed
BalReceive(date, openingBalance, closingBalance) ==
  /\ bal.pc = "idle"
  /\ bal' = [NoBal EXCEPT !.pc = "parsed", !.date = date,
                          !.openingBalance = openingBalance,
                          !.closingBalance = closingBalance]
  /\ UNCHANGED <<balances, balSeq, balRest>>

\* a handler that creates the record whether or not openingBalance was sent
BalFindNoOpeningCheck ==
  /\ bal.pc = "parsed"
  /\ bal' =
       IF ~isValidDate(bal.date)
       THEN [bal EXCEPT !.pc = "idle", !.code = 400, !.error = "Date is required"]
       ELSE [bal EXCEPT !.pc = IF BalanceOf(bal.date) # <<>> THEN "update" ELSE "insert"]
  /\ UNCHANGED <<balances, balSeq, balRest>>

\* the checks of the body, the select of the date's record, and for a new
\* date the check that openingBalance was sent
BalFind ==
  /\ bal.pc = "parsed"
  /\ bal' =
       IF bal.date = 0
       THEN [bal EXCEPT !.pc = "idle", !.code = 400, !.error = "Date is required"]
       ELSE IF ~isValidDate(bal.date)
       THEN [bal EXCEPT !.pc = "idle", !.code = 400,
               !.error = "Invalid date format. Use YYYY-MM-DD"]
       ELSE IF bal.openingBalance = Undefined /\ bal.closingBalance = Undefined
       THEN [bal EXCEPT !.pc = "idle", !.code = 400,
               !.error = "At least one of openingBalance or closingBalance is required"]
       ELSE IF bal.openingBalance.kind = "other"
       THEN [bal EXCEPT !.pc = "idle", !.code = 400, !.error = "openingBalance must be a number"]
       ELSE IF bal.closingBalance.kind = "other"
       THEN [bal EXCEPT !.pc = "idle", !.code = 400, !.error = "closingBalance must be a number"]
       ELSE IF BalanceOf(bal.date) # <<>>
       THEN [bal EXCEPT !.pc = "update", !.existing = BalanceOf(bal.date)[1].id]
       ELSE IF bal.openingBalance = Undefined
       THEN [bal EXCEPT !.pc = "idle", !.code = 400,
               !.error = "openingBalance is required for new records"]
       ELSE [bal EXCEPT !.pc = "insert"]
  /\ UNCHANGED <<balances, balSeq, balRest>>

\* an update that writes both columns from the body
BalUpdateBothColumns ==
  /\ bal.pc = "update"
  /\ balances' = [i \in 1..Len(balances) |->
        IF balances[i].date = bal.date
        THEN [balances[i] EXCEPT
                !.openingBalance = bal.openingBalance.value,
                !.closingBalance = IF bal.closingBalance = Undefined THEN Null
                                   ELSE bal.closingBalance]
        ELSE balances[i]]
  /\ bal' = [bal EXCEPT !.pc = "reselect"]
  /\ UNCHANGED <<balSeq, balRest>>

\* update(dailyBalance).set(updateData).where(eq(dailyBalance.date, body.date))
BalUpdate ==
  /\ bal.pc = "update"
  /\ balances' = [i \in 1..Len(balances) |->
        IF balances[i].date = bal.date
        THEN [balances[i] EXCEPT
                !.openingBalance = IF bal.openingBalance = Undefined THEN @
                                   ELSE bal.openingBalance.value,
                !.closingBalance = IF bal.closingBalance = Undefined THEN @
                                   ELSE bal.closingBalance]
        ELSE balances[i]]
  /\ bal' = [bal EXCEPT !.pc = "reselect"]
  /\ UNCHANGED <<balSeq, balRest>>

\* the select of the updated record, and the response
BalReselect ==
  /\ bal.pc = "reselect"
  /\ bal' = [bal EXCEPT !.pc = "idle", !.code = 200, !.result = <<BalanceOf(bal.date)[1]>>]
  /\ UNCHANGED <<balances, balSeq, balRest>>

\* insert(dailyBalance).values({ date, openingBalance, closingBalance ?? null })
BalInsert ==
  /\ bal.pc = "insert"
  /\ LET row == [id |-> balSeq + 1, date |-> bal.date,
                 openingBalance |-> bal.openingBalance.value,
                 closingBalance |-> IF bal.closingBalance = Undefined THEN Null
                                    ELSE bal.closingBalance]
     IN  /\ balances' = Append(balances, row)
         /\ bal' = [bal EXCEPT !.pc = "idle", !.code = 200, !.result = <<row>>]
  /\ balSeq' = balSeq + 1
  /\ UNCHANGED balRest

(***************************************************************************)
(* GET /api/dashboard.  A date string is the number of its day: the day of  *)
(* the instant t is t \div DayMs, in server time.                           *)
(***************************************************************************)
dashRest == <<storeSide, officeVars, authVars, bookVars, pageVars, hrVars>>

\* the server's local date of now
getTodayDateString == NowMs \div DayMs

\* new Date(dateString + 'T00:00:00')
getStartOfDayString(dateString) == dateString * DayMs

\* new Date(dateString + 'T23:59:59')
getEndOfDayString(dateString) == dateString * DayMs + DayMs - MsPerSec

\* and(gte(orders.createdAt, startOfDay), lte(orders.createdAt, endOfDay))
InDayWindow(row, dateString) ==
  /\ row.createdAt >= ToDriverValue(getStartOfDayString(dateString))
  /\ row.createdAt <= ToDriverValue(getEndOfDayString(dateString))

\* the top-items select: per menu item, the quantity sold in orders of the day
TopItemsOf(dateString) ==
  LET sold == SelectSeq(orderItems, LAMBDA it :
                /\ Known(it.menuItemId)
                /\ \E i \in 1..Len(orders) :
                     orders[i].id = it.orderId /\ InDayWindow(orders[i], dateString))
  IN  {[menuItemId |-> m,
        totalQuantity |-> SumSeq([k \in 1..Len(sold) |->
                            IF sold[k].menuItemId = m THEN sold[k].quantity ELSE 0])] :
         m \in {sold[k].menuItemId : k \in 1..Len(sold)}}

\* GET: the date parameter (0 - 1 when it is not there) or today's date
DashReceive(dateParam) ==
  /\ dash.pc = "idle"
  /\ dash' = [NoDash EXCEPT !.pc = "select", !.now = NowMs,
                            !.date = IF dateParam < 0 THEN getTodayDateString ELSE dateParam]
  /\ UNCHANGED dashRest

\* GET: the select of the day's orders is executed
DashSelect ==
  /\ dash.pc = "select"
  /\ dash' = [dash EXCEPT !.pc = "top",
                          !.dayOrders = SelectSeq(orders, LAMBDA o : InDayWindow(o, dash.date))]
  /\ UNCHANGED dashRest

\* GET: the select of the top items is executed, the response is built
DashTop ==
  /\ dash.pc = "top"
  /\ dash' = [dash EXCEPT !.pc = "idle", !.code = 200, !.topItems = TopItemsOf(dash.date)]
  /\ UNCHANGED dashRest

\* getDb() or a select throws: the catch block
DashStoreError ==
  /\ dash.pc \in {"select", "top"}
  /\ dash' = [dash EXCEPT !.pc = "idle", !.code = 500,
                          !.error = "Failed to fetch dashboard data"]
  /\ UNCHANGED dashRest

(***************************************************************************)
(* /api/staff: POST and DELETE.                                             *)
(***************************************************************************)
\* everything the staff handlers leave alone
staffRest ==
  <<attendance, attSeq, att, balances, balSeq, bal, storeSide, authVars, bookVars, pageVars,
    dash>>

StaffExists(id) == \E i \in 1..Len(staff) : staff[i].id = id

\* POST: the name is checked and the row inserted, active
StaffPost(name) ==
  /\ stf.pc = "idle"
  /\ staffSeq < MaxStaff
  /\ IF name = ""
     THEN /\ stf' = [NoStf EXCEPT !.code = 400, !.error = "Name is required"]
          /\ UNCHANGED <<staff, staffSeq>>
     ELSE /\ staff' = Append(staff, [id |-> staffSeq + 1, name |-> name, active |-> TRUE])
          /\ staffSeq' = staffSeq + 1
          /\ stf' = [NoStf EXCEPT !.code = 201]
  /\ UNCHANGED staffRest

\* DELETE: the request arrives with its id parameter
StaffDeleteReceive(id) ==
  /\ stf.pc = "idle"
  /\ stf' = [NoStf EXCEPT !.pc = "parsed", !.id = id]
  /\ UNCHANGED <<staff, staffSeq, staffRest>>

\* DELETE: the checks of the parameter, then the select of the staff member
StaffDeleteFind ==
  /\ stf.pc = "parsed"
  /\ stf' =
       IF stf.id = Undefined
       THEN [stf EXCEPT !.pc = "idle", !.code = 400, !.error = "Staff ID is required"]
       ELSE IF stf.id.kind # "number"
       THEN [stf EXCEPT !.pc = "idle", !.code = 400, !.error = "Invalid staff ID"]
       ELSE IF ~StaffExists(stf.id.value)
       THEN [stf EXCEPT !.pc = "idle", !.code = 404, !.error = "Staff member not found"]
       ELSE [stf EXCEPT !.pc = "update", !.staffId = stf.id.value]
  /\ UNCHANGED <<staff, staffSeq, staffRest>>

\* a DELETE that removes the row
StaffDeleteWriteHard ==
  /\ stf.pc = "update"
  /\ staff' = SelectSeq(staff, LAMBDA m : m.id # stf.staffId)
  /\ stf' = [stf EXCEPT !.pc = "idle", !.code = 200]
  /\ UNCHANGED <<staffSeq, staffRest>>

\* DELETE: update staff set active = false where id = staffId
StaffDeleteWrite ==
  /\ stf.pc = "update"
  /\ staff' = [i \in 1..Len(staff) |->
                IF staff[i].id = stf.staffId THEN [staff[i] EXCEPT !.active = FALSE]
                ELSE staff[i]]
  /\ stf' = [stf EXCEPT !.pc = "idle", !.code = 200]
  /\ UNCHANGED <<staffSeq, staffRest>>

(***************************************************************************)
(* GET /api/expenses.                                                       *)
(***************************************************************************)
VALID_CATEGORIES == {"ingredients", "rent", "wages", "utilities", "other"}

\* /^\d{4}-\d{2}-\d{2}$/ and a date that parses
isValidDateString(dateString) == Len(dateString) = 2 /\ dateString[1] >= 1

\* SQLite's text comparison a <= b
TextLte(a, b) == a[1] < b[1] \/ (a[1] = b[1] /\ a[2] <= b[2])

\* SQLite's text comparison a < b
TextLt(a, b) == a[1] < b[1] \/ (a[1] = b[1] /\ a[2] < b[2])

\* lte(expenses.date, endDate) with the end of the range left out
lteExclusive(date, endDate) == TextLt(date, endDate)

\* gte(expenses.date, startDate)
gte(date, startDate) == TextLte(startDate, date)

\* lte(expenses.date, endDate)
lte(date, endDate) ==
  TextLte(date, endDate)

\* the conditions array, as a predicate on a row
ExpConditions(e, startDate, endDate, category) ==
  /\ startDate # NoDateString => gte(e.date, startDate)
  /\ endDate # NoDateString => lte(e.date, endDate)
  /\ (category # "" /\ category # "all") => e.category = category

\* the row that ORDER BY date DESC, id DESC puts first
FirstDesc(rows) ==
  CHOOSE e \in rows : \A f \in rows :
    TextLt(f.date, e.date) \/ (f.date = e.date /\ f.id <= e.id)

RECURSIVE OrderByDesc(_)
OrderByDesc(rows) ==
  IF rows = {} THEN <<>>
  ELSE <<FirstDesc(rows)>> \o OrderByDesc(rows \ {FirstDesc(rows)})

\* the select: the rows that satisfy the conditions, newest date first
expenseList(startDate, endDate, category) ==
  OrderByDesc({expenses[i] : i \in
    {j \in 1..Len(expenses) : ExpConditions(expenses[j], startDate, endDate, category)}})

RECURSIVE grandTotalOf(_)
grandTotalOf(list) ==
  IF list = <<>> THEN 0 ELSE Head(list).amount + grandTotalOf(Tail(list))

\* a query that came in and is not answered yet
ExpGetArrival(startDate, endDate, category) ==
  [NoExpGet EXCEPT !.startDate = startDate, !.endDate = endDate, !.category = category]

\* the handler: the checks of the parameters, the select, the totals
ExpGet ==
  /\ expGet.status = 0
  /\ expGet' =
       IF expGet.startDate # NoDateString /\ ~isValidDateString(expGet.startDate)
       THEN [expGet EXCEPT !.status = 400, !.error = "Invalid startDate format. Use YYYY-MM-DD"]
       ELSE IF expGet.endDate # NoDateString /\ ~isValidDateString(expGet.endDate)
       THEN [expGet EXCEPT !.status = 400, !.error = "Invalid endDate format. Use YYYY-MM-DD"]
       ELSE IF expGet.category \notin ({"", "all"} \cup VALID_CATEGORIES)
       THEN [expGet EXCEPT !.status = 400, !.error = "Invalid category"]
       ELSE LET list == expenseList(expGet.startDate, expGet.endDate, expGet.category)
            IN  [expGet EXCEPT !.status = 200, !.expenses = list,
                               !.grandTotal = grandTotalOf(list)]
  /\ UNCHANGED <<expenses, storeSide, officeVars, authVars, pageVars, hrVars, dash>>

\* getDb() or the select throws: the catch block
ExpGetStoreError ==
  /\ expGet.status = 0
  /\ expGet' = [expGet EXCEPT !.status = 500, !.error = "Failed to fetch expenses"]
  /\ UNCHANGED <<expenses, storeSide, officeVars, authVars, pageVars, hrVars, dash>>

(***************************************************************************)
(* The session gate (middleware.ts).  A pathname is the sequence of its      *)
(* pieces, "/" and the words between: "/dashboardx" is <<"/", "dashboard",   *)
(* "x">>, so that startsWith is the prefix relation on sequences.  A cookie  *)
(* jar is <<>> without a session cookie and <<value>> with one.              *)
(***************************************************************************)
protectedRoutes ==
  { <<"/", "dashboard">>, <<"/", "expenses">>, <<"/", "attendance">>, <<"/", "wages">> }

startsWith(str, prefix) ==
  Len(str) >= Len(prefix) /\ SubSeq(str, 1, Len(prefix)) = prefix

\* pathname === route || pathname.startsWith(`${route}/`)
isProtectedRoute(pathname) ==
  \E route \in protectedRoutes :
    pathname = route \/ startsWith(pathname, route \o <<"/">>)

\* config.matcher: '/dashboard/:path*' and the like, the paths the gate runs for
matcher(pathname) ==
  \E route \in protectedRoutes :
    pathname = route \/ startsWith(pathname, route \o <<"/">>)

\* a gate that asks only whether the cookie is there
NoSessionCookie(cookie) == cookie = <<>>

\* !sessionCookie?.value
NoSessionValue(cookie) ==
  cookie = <<>> \/ cookie[1] = ""

Redirect(to) == [kind |-> "redirect", to |-> to]

NextResponse == [kind |-> "next", to |-> <<>>]

middleware(pathname, cookie) ==
  IF isProtectedRoute(pathname) /\ NoSessionValue(cookie)
  THEN Redirect(<<"/", "login">>)
  ELSE NextResponse

\* a request that came in and is not answered yet
GateArrival(pathname, cookie) ==
  [pathname |-> pathname, cookie |-> cookie, decision |-> NoGate.decision]

\* the request passes the gate: the middleware runs if the matcher selects the path
GateRequest ==
  /\ gate.pathname # <<>>
  /\ gate.decision = NoGate.decision
  /\ gate' = [gate EXCEPT !.decision =
                IF matcher(gate.pathname) THEN middleware(gate.pathname, gate.cookie)
                ELSE NextResponse]
  /\ UNCHANGED <<login, orderSide, officeVars>>

(***************************************************************************)
(* POST /api/auth/login.                                                    *)
(***************************************************************************)
\* createHash('sha256').update(password).digest('hex')
hashPassword(password) == <<"sha256", password>>

\* the admin_users table as seedAdminUser fills it
SeedAdmins ==
  << [id |-> 1, username |-> "admin", passwordHash |-> hashPassword("admin123")] >>

UsersNamed(username) == SelectSeq(SeedAdmins, LAMBDA u : u.username = username)

\* randomBytes(32).toString('hex')
SessionTokens == {"token-a", "token-b"}

\* a login that tells an unknown user from a wrong password
LoginOutcomeRevealing(username, password) ==
  IF username = "" \/ password = ""
  THEN [status |-> 400, error |-> "Username and password are required"]
  ELSE IF UsersNamed(username) = <<>>
  THEN [status |-> 404, error |-> "User not found"]
  ELSE IF hashPassword(password) # UsersNamed(username)[1].passwordHash
  THEN [status |-> 401, error |-> "Invalid credentials"]
  ELSE [status |-> 200, error |-> ""]

\* the checks of the handler, in order: status and error of the response
LoginOutcome(username, password) ==
  IF username = "" \/ password = ""
  THEN [status |-> 400, error |-> "Username and password are required"]
  ELSE IF UsersNamed(username) = <<>>
  THEN [status |-> 401, error |-> "Invalid credentials"]
  ELSE IF hashPassword(password) # UsersNamed(username)[1].passwordHash
  THEN [status |-> 401, error |-> "Invalid credentials"]
  ELSE [status |-> 200, error |-> ""]

\* the handler: only the successful response sets the session cookie
LoginPost(s, username, password) ==
  /\ LET out == LoginOutcome(username, password)
     IN  \E token \in IF out.status = 200 THEN {<<t>> : t \in SessionTokens} ELSE {<<>>} :
           login' = [login EXCEPT ![s] =
             [username |-> username, password |-> password, status |-> out.status,
              error |-> out.error, cookie |-> token]]
  /\ UNCHANGED <<gate, orderSide, officeVars>>

\* getDb() or the select throws: the catch block
LoginStoreError(s, username, password) ==
  /\ username # ""
  /\ password # ""
  /\ login' = [login EXCEPT ![s] =
        [username |-> username, password |-> password, status |-> 500,
         error |-> "Login failed", cookie |-> <<>>]]
  /\ UNCHANGED <<gate, orderSide, officeVars>>

(***************************************************************************)
(* GET /api/orders/stream: one connection.  start(controller) returns the   *)
(* cleanup function, which the stream never calls, and cancel() is empty:   *)
(* no step of the handler clears either interval, so both callbacks stay    *)
(* scheduled for as long as the process runs.                               *)
(***************************************************************************)
FetchErrorMessage == "Failed to fetch orders"

\* JSON.stringify with the empty array serialized like the initial ''
StringifyBlankWhenEmpty(data) == IF data = <<>> THEN <<>> ELSE <<data>>

\* JSON.stringify(ordersData): the text, as the sequence of the top-level
\* JSON values it holds, so that '' is <<>> and '[]' is << <<>> >>
Stringify(data) == <<data>>

Event(type, data, seq) == [type |-> type, data |-> data, seq |-> seq]

\* sendEvent: nothing once the flag is set; enqueue throws on a cancelled
\* stream, which sets the flag; otherwise the event is enqueued
sendEvent(ev) ==
  IF isControllerClosed
  THEN UNCHANGED <<isControllerClosed, log>>
  ELSE IF cancelled
  THEN isControllerClosed' = TRUE /\ UNCHANGED log
  ELSE log' = Append(log, ev) /\ UNCHANGED isControllerClosed

\* a call of checkForUpdates up to its first await: fetchTodaysOrders took
\* `now` and issued the select on orders
NewRead(seq) ==
  [seq |-> seq, now |-> NowMs, stage |-> "orders", rows |-> <<>>, acc |-> <<>>, i |-> 0]

\* GET: the stream starts, checkForUpdates() is called at once, both
\* intervals are scheduled
FeedConnect ==
  /\ ~connected
  /\ connected' = TRUE
  /\ reads' = {NewRead(1)}
  /\ UNCHANGED <<cancelled, isControllerClosed, lastDataHash, log, nTicks, nBeats>>
  /\ UNCHANGED <<clock, orders, orderItems, postVars, otherVars>>

\* the 2-second interval fires: checkForUpdates
PollTick ==
  /\ connected
  /\ nTicks < MaxTicks
  /\ nTicks' = nTicks + 1
  /\ reads' = IF isControllerClosed THEN reads ELSE reads \cup {NewRead(nTicks + 2)}
  /\ UNCHANGED <<connected, cancelled, isControllerClosed, lastDataHash, log, nBeats>>
  /\ UNCHANGED <<clock, orders, orderItems, postVars, otherVars>>

\* the 30-second interval fires
HeartbeatTick ==
  /\ connected
  /\ nBeats < MaxBeats
  /\ nBeats' = nBeats + 1
  /\ sendEvent(Event("heartbeat", NowMs, 0))
  /\ UNCHANGED <<connected, cancelled, lastDataHash, reads, nTicks>>
  /\ UNCHANGED <<clock, orders, orderItems, postVars, otherVars>>

\* the client goes away: the stream is cancelled, cancel() does nothing
ClientCancel ==
  /\ connected
  /\ ~cancelled
  /\ cancelled' = TRUE
  /\ UNCHANGED <<connected, isControllerClosed, lastDataHash, reads, log, nTicks, nBeats>>
  /\ UNCHANGED <<clock, orders, orderItems, postVars, otherVars>>

\* fetchTodaysOrders: the select on orders is executed
FeedReadOrders(r) ==
  /\ r \in reads
  /\ r.stage = "orders"
  /\ LET rows == todaysOrders(r.now)
     IN  reads' = (reads \ {r}) \cup
           {[r EXCEPT !.rows = rows,
                      !.stage = IF rows = <<>> THEN "done" ELSE "items",
                      !.i = IF rows = <<>> THEN 0 ELSE 1]}
  /\ UNCHANGED <<connected, cancelled, isControllerClosed, lastDataHash, log, nTicks, nBeats>>
  /\ UNCHANGED <<clock, orders, orderItems, postVars, otherVars>>

MenuName(id) == (CHOOSE m \in {menu[k] : k \in 1..Len(menu)} : m.id = id).name

\* select ... from order_items inner join menu_items where orderId = id
ItemsWithNames(id) ==
  LET its == SelectSeq(orderItems, LAMBDA it : it.orderId = id /\ Known(it.menuItemId))
  IN  [k \in 1..Len(its) |->
         [id |-> its[k].id, menuItemName |-> MenuName(its[k].menuItemId),
          quantity |-> its[k].quantity, priceAtTime |-> its[k].priceAtTime]]

\* { ...order, items }
OrderWithItems(o, items) ==
  [id |-> o.id, orderNumber |-> o.orderNumber, total |-> o.total, status |-> o.status,
   createdAt |-> o.createdAt, updatedAt |-> o.updatedAt, items |-> items]

\* fetchTodaysOrders: the select of one order's items is executed
FeedReadItems(r) ==
  /\ r \in reads
  /\ r.stage = "items"
  /\ reads' = (reads \ {r}) \cup
       {[r EXCEPT !.acc = Append(r.acc, OrderWithItems(r.rows[r.i], ItemsWithNames(r.rows[r.i].id))),
                  !.stage = IF r.i = Len(r.rows) THEN "done" ELSE "items",
                  !.i = IF r.i = Len(r.rows) THEN 0 ELSE r.i + 1]}
  /\ UNCHANGED <<connected, cancelled, isControllerClosed, lastDataHash, log, nTicks, nBeats>>
  /\ UNCHANGED <<clock, orders, orderItems, postVars, otherVars>>

\* checkForUpdates sending whatever it fetched, without the comparison
FeedCompleteAlwaysSend(r) ==
  /\ r \in reads
  /\ r.stage = "done"
  /\ reads' = reads \ {r}
  /\ lastDataHash' = Stringify(r.acc)
  /\ sendEvent(Event("orders", Stringify(r.acc), r.seq))
  /\ UNCHANGED <<connected, cancelled, nTicks, nBeats>>
  /\ UNCHANGED <<clock, orders, orderItems, postVars, otherVars>>

\* checkForUpdates after the fetch: compare with lastDataHash, send on a change
FeedComplete(r) ==
  /\ r \in reads
  /\ r.stage = "done"
  /\ reads' = reads \ {r}
  /\ LET currentDataHash == Stringify(r.acc)
     IN  IF currentDataHash # lastDataHash
         THEN /\ lastDataHash' = currentDataHash
              /\ sendEvent(Event("orders", currentDataHash, r.seq))
         ELSE UNCHANGED <<lastDataHash, isControllerClosed, log>>
  /\ UNCHANGED <<connected, cancelled, nTicks, nBeats>>
  /\ UNCHANGED <<clock, orders, orderItems, postVars, otherVars>>

\* the catch block closing the stream's controller after the error event
FeedReadFailsAndCloses(r) ==
  /\ r \in reads
  /\ r.stage \in {"orders", "items"}
  /\ reads' = reads \ {r}
  /\ log' = IF isControllerClosed \/ cancelled
            THEN log ELSE Append(log, Event("error", FetchErrorMessage, r.seq))
  /\ isControllerClosed' = TRUE
  /\ UNCHANGED <<connected, cancelled, lastDataHash, nTicks, nBeats>>
  /\ UNCHANGED <<clock, orders, orderItems, postVars, otherVars>>

\* getDb() or a select of fetchTodaysOrders throws: the catch block
FeedReadFails(r) ==
  /\ r \in reads
  /\ r.stage \in {"orders", "items"}
  /\ reads' = reads \ {r}
  /\ sendEvent(Event("error", FetchErrorMessage, r.seq))
  /\ UNCHANGED <<connected, cancelled, lastDataHash, nTicks, nBeats>>
  /\ UNCHANGED <<clock, orders, orderItems, postVars, otherVars>>

\* an interval whose later runs no longer call checkForUpdates
PollTickIdle ==
  /\ connected
  /\ UNCHANGED <<connected, cancelled, isControllerClosed, lastDataHash, reads, log, nTicks, nBeats>>
  /\ UNCHANGED <<clock, orders, orderItems, postVars, otherVars>>

\* the 2-second interval keeps firing for as long as the process runs: its
\* runs left uncounted, each a call of checkForUpdates
PollTickSteady ==
  /\ connected
  /\ Cardinality(reads) < MaxInflight
  /\ reads' = IF isControllerClosed THEN reads ELSE reads \cup {NewRead(0)}
  /\ UNCHANGED <<connected, cancelled, isControllerClosed, lastDataHash, log, nTicks, nBeats>>
  /\ UNCHANGED <<clock, orders, orderItems, postVars, otherVars>>

(***************************************************************************)
(* The kitchen display page (kitchen/page.tsx), in the browser.  An         *)
(* EventSource dispatches a server-sent event named N as a MessageEvent of  *)
(* type N, and a failure of the connection as a plain Event of type         *)
(* 'error'.  The onerror property is the handler of every event of type     *)
(* 'error' dispatched at the object, so it runs for both; the 'error'       *)
(* listener tells them apart with instanceof MessageEvent.  A closed        *)
(* EventSource dispatches nothing more.                                     *)
(***************************************************************************)
\* everything the page's callbacks leave alone
pageRest == <<storeSide, officeVars, authVars, bookVars, hrVars, dash>>

IdsOf(list) == {list[i].id : i \in 1..Len(list)}

\* the orders of a snapshot that are not in seenOrderIdsRef, in snapshot order
brandNewOrders(newOrders) ==
  SelectSeq(newOrders, LAMBDA order : order.id \notin seenOrderIds)

\* checkForNewOrders that never records what it has notified
checkForNewOrdersForgetful(newOrders) ==
  IF isInitialLoad
  THEN /\ isInitialLoad' = FALSE
       /\ seenOrderIds' = IdsOf(newOrders)
       /\ UNCHANGED notifications
  ELSE /\ notifications' =
            notifications \o [k \in 1..Len(brandNewOrders(newOrders)) |->
                                brandNewOrders(newOrders)[k].id]
       /\ UNCHANGED <<seenOrderIds, isInitialLoad>>

checkForNewOrders(newOrders) ==
  IF isInitialLoad
  THEN /\ isInitialLoad' = FALSE
       /\ seenOrderIds' = IdsOf(newOrders)
       /\ UNCHANGED notifications
  ELSE /\ notifications' =
            notifications \o [k \in 1..Len(brandNewOrders(newOrders)) |->
                                brandNewOrders(newOrders)[k].id]
       /\ seenOrderIds' = seenOrderIds \cup IdsOf(brandNewOrders(newOrders))
       /\ UNCHANGED isInitialLoad

\* connectSSE: new EventSource(...), kept in eventSourceRef
connectSSE(ss) ==
  /\ sources' = Append(ss, "open")
  /\ eventSourceRef' = Len(ss) + 1

\* eventSource.close() on source s
Closed(ss, s) == [ss EXCEPT ![s] = "closed"]

\* the page is rendered: the effect runs connectSSE()
PageMount ==
  /\ mounted = "no"
  /\ mounted' = "yes"
  /\ connectSSE(sources)
  /\ UNCHANGED <<pageOrders, isConnected, pageError, timers, seenOrderIds, isInitialLoad,
                 notifications, firstSnapshotIds>>

\* the 'orders' listener of source s, for an event whose data parses to { orders }
OnOrders(s, newOrders) ==
  /\ sources[s] = "open"
  /\ checkForNewOrders(newOrders)
  /\ pageOrders' = newOrders
  /\ isConnected' = TRUE
  /\ pageError' = NoError
  /\ firstSnapshotIds' =
       IF firstSnapshotIds = <<>> THEN <<IdsOf(newOrders)>> ELSE firstSnapshotIds
  /\ UNCHANGED <<mounted, sources, eventSourceRef, timers>>

\* the 'heartbeat' listener of source s
OnHeartbeat(s) ==
  /\ sources[s] = "open"
  /\ isConnected' = TRUE
  /\ UNCHANGED <<mounted, pageOrders, pageError, sources, eventSourceRef, timers,
                 seenOrderIds, isInitialLoad, notifications, firstSnapshotIds>>

\* eventSource.onerror of source s
onerror(s) ==
  /\ isConnected' = FALSE
  /\ sources' = Closed(sources, s)
  /\ timers' = timers + 1

\* a server-sent event named 'error' handled by the 'error' listener alone
OnErrorMessageListenerOnly(s, message) ==
  /\ sources[s] = "open"
  /\ pageError' = message
  /\ isConnected' = FALSE
  /\ UNCHANGED <<mounted, pageOrders, sources, timers, eventSourceRef, seenOrderIds,
                 isInitialLoad, notifications, firstSnapshotIds>>

\* a server-sent event named 'error' at source s: the 'error' listener (the
\* event is a MessageEvent: setError) and onerror both run
OnErrorMessage(s, message) ==
  /\ sources[s] = "open"
  /\ pageError' = message
  /\ onerror(s)
  /\ UNCHANGED <<mounted, pageOrders, eventSourceRef, seenOrderIds, isInitialLoad,
                 notifications, firstSnapshotIds>>

\* onerror without the reconnect
OnTransportErrorNoRetry(s) ==
  /\ sources[s] = "open"
  /\ isConnected' = FALSE
  /\ sources' = Closed(sources, s)
  /\ UNCHANGED <<mounted, pageOrders, pageError, timers, eventSourceRef, seenOrderIds,
                 isInitialLoad, notifications, firstSnapshotIds>>

\* the connection of source s fails: the 'error' listener (not a
\* MessageEvent: setIsConnected(false) only) and onerror both run
OnTransportError(s) ==
  /\ sources[s] = "open"
  /\ onerror(s)
  /\ UNCHANGED <<mounted, pageOrders, pageError, eventSourceRef, seenOrderIds,
                 isInitialLoad, notifications, firstSnapshotIds>>

\* the 3 seconds of a setTimeout(connectSSE, 3000) are over: connectSSE runs
ReconnectTimer ==
  /\ timers > 0
  /\ timers' = timers - 1
  /\ connectSSE(sources)
  /\ UNCHANGED <<mounted, pageOrders, isConnected, pageError, seenOrderIds, isInitialLoad,
                 notifications, firstSnapshotIds>>

\* the page is unmounted: the effect's cleanup closes eventSourceRef.current
PageUnmount ==
  /\ mounted = "yes"
  /\ mounted' = "gone"
  /\ sources' = IF eventSourceRef # 0 THEN Closed(sources, eventSourceRef) ELSE sources
  /\ UNCHANGED <<pageOrders, isConnected, pageError, eventSourceRef, timers, seenOrderIds,
                 isInitialLoad, notifications, firstSnapshotIds>>

\* the page alone, the events of its streams being any events
PageOnly == UNCHANGED <<delivered, pageRest>>

(***************************************************************************)
(* The kitchen page on the feed: every EventSource the page creates is a    *)
(* GET of /api/orders/stream, served by a new stream with its own           *)
(* lastDataHash, flag, intervals and calls of checkForUpdates; the feed     *)
(* variables hold the stream of the page's latest EventSource.              *)
(***************************************************************************)
\* GET for a new EventSource: start(controller) of a new stream
NewStream ==
  /\ connected' = TRUE
  /\ cancelled' = FALSE
  /\ isControllerClosed' = FALSE
  /\ lastDataHash' = <<>>
  /\ reads' = {NewRead(1)}
  /\ log' = <<>>
  /\ nTicks' = 0
  /\ nBeats' = 0
  /\ delivered' = 0

\* everything neither the page nor the stream's start touches
displayRest ==
  <<clock, orders, orderItems, postVars, kitchenVars, officeVars, authVars, bookVars, hrVars,
    dash>>

\* the page is rendered and its EventSource is served
DisplayMount == PageMount /\ NewStream /\ UNCHANGED displayRest

\* the reconnect timer runs and the new EventSource is served
DisplayReconnect == ReconnectTimer /\ NewStream /\ UNCHANGED displayRest

\* the browser dispatches the next event of the stream at the page's EventSource
DisplayDeliver ==
  /\ eventSourceRef # 0
  /\ delivered < Len(log)
  /\ delivered' = delivered + 1
  /\ LET ev == log[delivered + 1]
     IN  CASE ev.type = "orders" -> OnOrders(eventSourceRef, ev.data[1])
           [] ev.type = "heartbeat" -> OnHeartbeat(eventSourceRef)
           [] ev.type = "error" -> OnErrorMessage(eventSourceRef, ev.data)
  /\ UNCHANGED <<feedVars, displayRest>>

\* a store read of the stream fails, once per stream and not on the last one
FeedReadFailsOnce(r) ==
  /\ \A k \in 1..Len(log) : log[k].type # "error"
  /\ Len(sources) < MaxSources
  /\ FeedReadFails(r)

(***************************************************************************)
(* Specifications.                                                          *)
(***************************************************************************)
\* two request slots, store errors, time passing
Next ==
  \/ Tick
  \/ \E p \in Procs, b \in SmallBodies : PostReceive(p, b, MaxOrders)
  \/ \E p \in Procs : PostValidate(p)
  \/ \E p \in Procs : PostCount(p)
  \/ \E p \in Procs : PostInsertOrder(p)
  \/ \E p \in Procs : PostInsertItem(p)
  \/ \E p \in Procs : PostStoreError(p)

Spec == Init /\ [][Next]_vars

\* one request at a time, a healthy store, time passing
NextSeq ==
  \/ Tick
  \/ \E b \in SmallBodies : PostReceive(1, b, MaxOrders)
  \/ PostValidate(1)
  \/ PostCount(1)
  \/ PostInsertOrder(1)
  \/ PostInsertItem(1)

SpecSeq == Init /\ [][NextSeq]_vars

\* one request at a time, a healthy store, every request body, within one second
NextIntake ==
  \/ \E b \in Bodies : PostReceive(1, b, MaxIntakeOrders)
  \/ PostValidate(1)
  \/ PostCount(1)
  \/ PostInsertOrder(1)
  \/ PostInsertItem(1)

SpecIntake == Init /\ [][NextIntake]_vars

\* one feed connection, and orders submitted one at a time while it is open
NextFeed ==
  \/ FeedConnect
  \/ PollTick
  \/ \E r \in reads : FeedReadOrders(r)
  \/ \E r \in reads : FeedReadItems(r)
  \/ \E r \in reads : FeedComplete(r)
  \/ \E r \in reads : FeedReadFails(r)
  \/ \E b \in FeedBodies : PostReceive(1, b, MaxFeedOrders)
  \/ PostValidate(1)
  \/ PostCount(1)
  \/ PostInsertOrder(1)
  \/ PostInsertItem(1)

SpecFeed == Init /\ [][NextFeed]_vars

\* one feed connection from start to the client's disconnect, the store at rest
NextLife ==
  \/ FeedConnect
  \/ \E r \in reads : FeedReadOrders(r)
  \/ \E r \in reads : FeedReadItems(r)
  \/ \E r \in reads : FeedComplete(r)
  \/ \E r \in reads : FeedReadFails(r)
  \/ PollTick
  \/ HeartbeatTick
  \/ ClientCancel

SpecLife == InitLife /\ [][NextLife]_vars

\* one feed connection that stays open, reads that succeed, the interval
\* firing without end, and orders submitted one at a time while it is open
NextConverge ==
  \/ FeedConnect
  \/ PollTickSteady
  \/ \E r \in reads : FeedReadOrders(r)
  \/ \E r \in reads : FeedReadItems(r)
  \/ \E r \in reads : FeedComplete(r)
  \/ \E b \in OneLineBodies : PostReceive(1, b, MaxFeedOrders)
  \/ PostValidate(1)
  \/ PostCount(1)
  \/ PostInsertOrder(1)
  \/ PostInsertItem(1)

\* line items a call of checkForUpdates has fetched so far
ItemsRead(r) == SumSeq([j \in 1..Len(r.acc) |-> Len(r.acc[j].items)])

\* the calls in progress that fetched n orders, k line items, and stand at order i
ReadsAt(n, k, i) == {r \in reads : Len(r.rows) = n /\ ItemsRead(r) = k /\ r.i = i}

\* the event loop runs every timer callback that is due and the continuation
\* of every call whose store read returned; a request that arrived is served
SpecConverge ==
  /\ Init
  /\ [][NextConverge]_vars
  /\ WF_vars(PollTickSteady)
  /\ WF_vars(\E r \in reads : FeedReadOrders(r))
  /\ \A n \in 1..MaxFeedOrders, k \in 0..MaxFeedOrders, i \in 1..MaxFeedOrders :
       WF_vars(\E r \in ReadsAt(n, k, i) : FeedReadItems(r))
  /\ \A n \in 0..MaxFeedOrders, k \in 0..MaxFeedOrders :
       WF_vars(\E r \in ReadsAt(n, k, 0) : FeedComplete(r))
  /\ WF_vars(PostValidate(1))
  /\ WF_vars(PostCount(1))
  /\ WF_vars(PostInsertOrder(1))
  /\ WF_vars(PostInsertItem(1))

\* status changes of every kind, one at a time, on a store that holds one
\* order, while time passes
NextKitchen ==
  \/ Tick
  \/ \E id \in PatchIds, st \in PatchStatuses : PatchReceive(id, st)
  \/ PatchLookup
  \/ PatchUpdate
  \/ PatchStoreError

SpecKitchen == InitKitchen /\ [][NextKitchen]_vars

\* orders submitted and their statuses changed from the kitchen display, one
\* request of each kind at a time, while menu prices are edited
NextFrame ==
  \/ \E b \in OneLineBodies : PostReceive(1, b, MaxKitchenOrders)
  \/ PostValidate(1)
  \/ PostCount(1)
  \/ PostInsertOrder(1)
  \/ PostInsertItem(1)
  \/ \E id \in 1..MaxKitchenOrders, st \in activeStatuses : PatchReceive(id, st)
  \/ PatchLookup
  \/ PatchUpdate
  \/ MenuPriceChange

SpecFrame == Init /\ [][NextFrame]_vars

\* attendance requests one at a time: every kind of body
NextAttendanceSeq ==
  \/ \E staffId \in {0, 1, UnknownStaffId}, date \in DateInputs,
        status \in {"", "present", "absent", "late"} :
          AttPostReceive(1, staffId, date, status)
  \/ AttPostStaff(1)
  \/ AttPostFind(1)
  \/ AttPostWrite(1)
  \/ \E staffId \in {0, 1}, date \in DateInputs : AttDeleteReceive(1, staffId, date)
  \/ AttDeleteFind(1)
  \/ AttDeleteWrite(1)

SpecAttendanceSeq == Init /\ [][NextAttendanceSeq]_vars

\* two attendance requests at a time, all for one staff member and one date
NextAttendance ==
  \/ \E s \in AttProcs, status \in {"present", "absent"} : AttPostReceive(s, 1, 1, status)
  \/ \E s \in AttProcs : AttPostStaff(s)
  \/ \E s \in AttProcs : AttPostFind(s)
  \/ \E s \in AttProcs : AttPostWrite(s)
  \/ \E s \in AttProcs : AttDeleteReceive(s, 1, 1)
  \/ \E s \in AttProcs : AttDeleteFind(s)
  \/ \E s \in AttProcs : AttDeleteWrite(s)

SpecAttendance == Init /\ [][NextAttendance]_vars

\* the values a balance field of a request body takes
OpeningValues == {Undefined, NotNumber, Num(10000), Num(12000)}

ClosingValues == {Undefined, NotNumber, Num(18000)}

\* balance requests one at a time: every kind of body
NextBalance ==
  \/ \E date \in DateInputs, ob \in OpeningValues, cb \in ClosingValues :
       BalReceive(date, ob, cb)
  \/ BalFind
  \/ BalUpdate
  \/ BalReselect
  \/ BalInsert

SpecBalance == Init /\ [][NextBalance]_vars

PathTokens ==
  {"/", "dashboard", "expenses", "attendance", "wages", "login", "order", "kitchen", "x"}

\* the pathnames of at most MaxPathTokens pieces; every pathname begins with "/"
Pathnames == {p \in SeqsUpTo(PathTokens, MaxPathTokens) : p # <<>> /\ p[1] = "/"}

\* no session cookie, an empty one, one with a value
CookieJars == {<<>>, <<"">>, <<"token-a">>}

\* one request, any pathname and any cookie jar, at the session gate
InitGate ==
  \E pathname \in Pathnames, cookie \in CookieJars :
    InitAll(<<>>, <<>>, GateArrival(pathname, cookie))

NextGate == GateRequest

SpecGate == InitGate /\ [][NextGate]_vars

\* valid date strings: two months, MaxDates days each
DateStrings == {<<m, day>> : m \in 1..2, day \in 1..MaxDates}

\* the amount the seeded rows of a category carry
AmountOf(category) == IF category = "rent" THEN 100000 ELSE 5000

\* the rows POST can have stored, before the table numbers them
ExpenseRows ==
  {[category |-> c, amount |-> AmountOf(c), date |-> dt] :
     c \in {"rent", "ingredients"}, dt \in DateStrings}

\* a table of at most MaxExpenses rows, ids in insertion order
ExpenseTables ==
  {[i \in 1..Len(t) |->
      [id |-> i, category |-> t[i].category, amount |-> t[i].amount, date |-> t[i].date]] :
     t \in SeqsUpTo(ExpenseRows, MaxExpenses)}

DateParams == {NoDateString, BadDateString} \cup DateStrings

CategoryParams == {"", "rent", "bogus"}

\* any table of expenses and one query for it
InitExpenses ==
  /\ InitCore(<<>>, <<>>, NoGate)
  /\ PageIdle
  /\ StaffIdle
  /\ dash = NoDash
  /\ expenses \in ExpenseTables
  /\ \E startDate \in DateParams, endDate \in DateParams, category \in CategoryParams :
       expGet = ExpGetArrival(startDate, endDate, category)

NextExpenses ==
  \/ ExpGet
  \/ ExpGetStoreError

SpecExpenses == InitExpenses /\ [][NextExpenses]_vars

\* the snapshots an 'orders' event can carry: the orders 1..MaxPageOrders, any of them
PageSnapshots ==
  {[k \in 1..Len(ids) |-> [id |-> ids[k], status |-> "pending"]] :
     ids \in {q \in SeqsUpTo(1..MaxPageOrders, MaxPageOrders) :
                \A a, b \in 1..Len(q) : a < b => q[a] < q[b]}}

\* what the data of an 'error' event leads setError to
ErrorMessages == {FetchErrorMessage, "Connection error"}

Sources == 1..Len(sources)

\* the kitchen page from render to unmount, its streams delivering any events
NextPage ==
  \/ PageMount /\ PageOnly
  \/ \E s \in Sources, snapshot \in PageSnapshots : OnOrders(s, snapshot) /\ PageOnly
  \/ \E s \in Sources : OnHeartbeat(s) /\ PageOnly
  \/ \E s \in Sources, m \in ErrorMessages :
       Len(sources) < MaxSources /\ OnErrorMessage(s, m) /\ PageOnly
  \/ \E s \in Sources : Len(sources) < MaxSources /\ OnTransportError(s) /\ PageOnly
  \/ ReconnectTimer /\ PageOnly
  \/ PageUnmount /\ PageOnly

SpecPage == Init /\ [][NextPage]_vars

\* the kitchen page on the feed, the store at rest, reads that fail now and then
NextDisplay ==
  \/ DisplayMount
  \/ DisplayReconnect
  \/ DisplayDeliver
  \/ PollTickSteady
  \/ HeartbeatTick
  \/ \E r \in reads : FeedReadOrders(r)
  \/ \E r \in reads : FeedReadItems(r)
  \/ \E r \in reads : FeedComplete(r)
  \/ \E r \in reads : FeedReadFailsOnce(r)

\* the event loops of server and browser run every callback that is due and
\* every continuation whose store read returned
SpecDisplay ==
  /\ InitKitchen
  /\ [][NextDisplay]_vars
  /\ WF_vars(DisplayReconnect)
  /\ WF_vars(DisplayDeliver)
  /\ WF_vars(PollTickSteady)
  /\ WF_vars(\E r \in reads : FeedReadOrders(r))
  /\ \A n \in 1..Len(SeededOrders), k \in 0..Len(SeededOrderItems), i \in 1..Len(SeededOrders) :
       WF_vars(\E r \in ReadsAt(n, k, i) : FeedReadItems(r))
  /\ \A n \in 0..Len(SeededOrders), k \in 0..Len(SeededOrderItems) :
       WF_vars(\E r \in ReadsAt(n, k, 0) : FeedComplete(r))

\* the browser runs a timer callback that is due
SpecPageFair == SpecPage /\ WF_vars(ReconnectTimer /\ PageOnly)

\* the id parameter of a staff DELETE: missing, not a number, a number
StaffIdParams ==
  {Undefined, NotNumber} \cup {Num(n) : n \in {1, Len(SeedStaff), MaxStaff + 1}}

\* the staff handlers and attendance requests, one of each at a time
NextStaff ==
  \/ \E name \in {"", "New Cook"} : StaffPost(name)
  \/ \E id \in StaffIdParams : StaffDeleteReceive(id)
  \/ StaffDeleteFind
  \/ StaffDeleteWrite
  \/ \E staffId \in {1, Len(SeedStaff), MaxStaff + 1}, status \in {"present", "absent"} :
       AttPostReceive(1, staffId, 1, status)
  \/ AttPostStaff(1)
  \/ AttPostFind(1)
  \/ AttPostWrite(1)
  \/ \E staffId \in {1, Len(SeedStaff)} : AttDeleteReceive(1, staffId, 1)
  \/ AttDeleteFind(1)
  \/ AttDeleteWrite(1)

SpecStaff == Init /\ [][NextStaff]_vars

\* the date parameters of the dashboard: none, or a day the clock can reach
DashDates == (0 - 1)..(MaxClock \div SecPerDay)

\* orders submitted one at a time as time passes, and the dashboard read
NextDay ==
  \/ Tick
  \/ \E b \in OneLineBodies : PostReceive(1, b, MaxOrders)
  \/ PostValidate(1)
  \/ PostCount(1)
  \/ PostInsertOrder(1)
  \/ PostInsertItem(1)
  \/ \E dateParam \in DashDates : DashReceive(dateParam)
  \/ DashSelect
  \/ DashTop
  \/ DashStoreError

SpecDay == Init /\ [][NextDay]_vars

Usernames == {"", "admin", "nonexistent"}

Passwords == {"", "admin123", "wrongpassword"}

\* login attempts, two of them kept side by side
NextLogin ==
  \/ \E s \in LoginProcs, u \in Usernames, pw \in Passwords : LoginPost(s, u, pw)
  \/ \E s \in LoginProcs, u \in Usernames, pw \in Passwords : LoginStoreError(s, u, pw)

SpecLogin == Init /\ [][NextLogin]_vars

(***************************************************************************)
(* Order intake: the claims.                                                *)
(***************************************************************************)
MenuPrice(id) == (CHOOSE m \in {SeedMenu[i] : i \in 1..Len(SeedMenu)} : m.id = id).price

\* a non-empty list of lines that each reference a menu item of the store
AllLinesKnown(body) ==
  /\ body.kind = "array"
  /\ Len(body.items) > 0
  /\ \A i \in 1..Len(body.items) : Known(body.items[i].menuItemId)

ExpectedTotal(items) ==
  SumSeq([i \in 1..Len(items) |-> items[i].quantity * MenuPrice(items[i].menuItemId)])

Answered(p) == pc[p] = "idle" /\ resp[p].status \notin {0, 500}

\* C1: every answered submission whose lines all reference menu items of the
\* store (the same item possibly on several lines) persisted an order whose
\* total is the sum of quantity x current menu price over the lines.
C1_TotalOfEveryValidSubmission ==
  \A p \in Procs :
    (Answered(p) /\ AllLinesKnown(req[p])) =>
      /\ resp[p].status = 200
      /\ orders[resp[p].orderId].total = ExpectedTotal(req[p].items)

DayOf(row) == row.createdAt \div SecPerDay

RankInDay(i) == Cardinality({j \in 1..i : DayOf(orders[j]) = DayOf(orders[i])})

\* C2: with one submission at a time, the k-th order created on a calendar
\* day carries the number k padded to three digits, whatever second of the
\* day it is created in.
C2_SequentialNumbersPerDay ==
  \A i \in 1..Len(orders) :
    orders[i].orderNumber = padStart(Digits(RankInDay(i)), 3, 0)

StoreUnchanged == orders' = orders /\ orderItems' = orderItems

\* C3: a submission whose item list is missing, not a list, empty or names a
\* menu item the store does not have is answered 400, and neither taking the
\* request in nor rejecting it writes an order row or a line-item row.
C3_RejectedPersistsNothing ==
  /\ [](\A p \in Procs : (Answered(p) /\ ~AllLinesKnown(req[p])) => resp[p].status = 400)
  /\ [][\A p \in Procs :
          /\ (pc[p] = "idle" /\ pc'[p] = "parsed") => StoreUnchanged
          /\ (resp[p].status = 0 /\ resp'[p].status = 400) =>
                (pc[p] = "parsed" /\ StoreUnchanged)]_vars

\* a rejected submission that mixes a known and an unknown item, the store empty
C3_Witness ==
  \E p \in Procs :
    /\ Answered(p) /\ resp[p].status = 400
    /\ \E i, j \in 1..Len(req[p].items) :
         Known(req[p].items[i].menuItemId) /\ ~Known(req[p].items[j].menuItemId)
    /\ orders = <<>> /\ orderItems = <<>>

Inserted(p) == pc[p] = "items"

\* C4: the daily counter is a read followed by a separate insert: two requests
\* that counted the same number of today's orders both insert that number + 1.
C4_SameCountSameNumber ==
  \A p, q \in Procs :
    (p # q /\ Inserted(p) /\ Inserted(q) /\ cnt[p] = cnt[q]) =>
      orders[orderId[p]].orderNumber = orders[orderId[q]].orderNumber

\* two overlapping requests counted the same and their orders, created on the
\* same day, carry the same order number
C4_Witness ==
  \E p, q \in Procs :
    /\ p # q /\ Inserted(p) /\ Inserted(q) /\ cnt[p] = cnt[q]
    /\ DayOf(orders[orderId[p]]) = DayOf(orders[orderId[q]])
    /\ orders[orderId[p]].orderNumber = orders[orderId[q]].orderNumber

ItemsOf(id) == SelectSeq(orderItems, LAMBDA it : it.orderId = id)

ItemsTotal(id) ==
  LET its == ItemsOf(id)
  IN  SumSeq([i \in 1..Len(its) |-> its[i].quantity * its[i].priceAtTime])

\* C5: in every state of the store each order's total is the sum of
\* quantity x priceAtTime over its stored line items.
C5_TotalMatchesStoredItems ==
  \A i \in 1..Len(orders) : orders[i].total = ItemsTotal(orders[i].id)

(***************************************************************************)
(* The live feed: the claims.                                               *)
(***************************************************************************)
EventsOf(type) == {k \in 1..Len(log) : log[k].type = type}

\* checkForUpdates calls that fetched their snapshot and ran to the end, on a
\* connection whose every interval run started a call
CompletedOk == nTicks + 1 - Cardinality(reads) - Cardinality(EventsOf("error"))

\* today's orders with their items, as the store holds them now
CurrentSnapshot ==
  LET rows == todaysOrders(NowMs)
  IN  [k \in 1..Len(rows) |-> OrderWithItems(rows[k], ItemsWithNames(rows[k].id))]

\* C6 as stated: the first event delivered on a connection is 'orders'.
C6_FirstEventIsOrders == log # <<>> => log[1].type = "orders"

\* C6 as amended: on an open connection the first fetch that succeeds is
\* always answered by an 'orders' event carrying the store's snapshot, the
\* empty one included; before it only 'error' events with the fixed message
\* (a fetch threw) and heartbeats can have been delivered.
C6_FirstSnapshotAlwaysSent ==
  (connected /\ ~cancelled) =>
    /\ CompletedOk >= 1 => EventsOf("orders") # {}
    /\ \A k \in EventsOf("orders") : log[k].data = Stringify(CurrentSnapshot)
    /\ \A k \in EventsOf("error") : log[k].data = FetchErrorMessage

\* the first event is 'orders' and carries the empty snapshot
C6_Witness ==
  /\ connected /\ ~cancelled
  /\ log # <<>>
  /\ log[1].type = "orders"
  /\ log[1].data = Stringify(<<>>)

LastOrdersData ==
  IF EventsOf("orders") = {} THEN <<>>
  ELSE log[CHOOSE k \in EventsOf("orders") : \A j \in EventsOf("orders") : j <= k].data

\* C7: an 'orders' event is sent only for a snapshot that differs from the
\* last one sent: lastDataHash is the last snapshot sent, and two 'orders'
\* events with no 'orders' event between them never carry the same snapshot.
C7_NoRepeatedSnapshot ==
  /\ lastDataHash = LastOrdersData
  /\ \A i, j \in EventsOf("orders") :
       (i < j /\ \A k \in EventsOf("orders") : ~(i < k /\ k < j)) =>
         log[i].data # log[j].data

\* two snapshots were sent, and a call that fetched an unchanged snapshot sent nothing
C7_Witness ==
  /\ Cardinality(EventsOf("orders")) >= 2
  /\ CompletedOk > Cardinality(EventsOf("orders"))

\* C8: after the client's disconnect neither interval callback runs again.
C8_TimersStopOnDisconnect ==
  [][cancelled => (nTicks' = nTicks /\ nBeats' = nBeats)]_vars

\* a call of checkForUpdates ended in its catch block
FailedReads == {r \in reads : r.stage # "done" /\ \A q \in reads' : q.seq # r.seq}

\* C9: a fetch that throws, on the first call or a later one, is answered by
\* one 'error' event with the fixed message; it leaves the controller open,
\* lastDataHash as it was and the other calls running.
C9_ErrorKeepsStreamOpen ==
  /\ [](~isControllerClosed /\ \A k \in EventsOf("error") : log[k].data = FetchErrorMessage)
  /\ [][\A r \in FailedReads :
          /\ log' = Append(log, Event("error", FetchErrorMessage, r.seq))
          /\ lastDataHash' = lastDataHash
          /\ reads' = reads \ {r}]_vars

\* an interval run's fetch threw, and a later run delivered an 'orders' event
C9_Witness ==
  \E i \in EventsOf("error"), j \in EventsOf("orders") :
    i < j /\ 2 <= log[i].seq /\ log[i].seq < log[j].seq

\* the orders array of an 'orders' event
OrdersOf(k) == log[k].data[1]

\* snapshot a shows an older state of the store than snapshot b: orders are
\* only ever added, and items only ever added to an order
Older(a, b) ==
  \/ Len(a) < Len(b)
  \/ /\ Len(a) = Len(b)
     /\ \A k \in 1..Len(a) : Len(a[k].items) <= Len(b[k].items)
     /\ \E k \in 1..Len(a) : Len(a[k].items) < Len(b[k].items)

\* C10: an 'orders' event never carries a snapshot from a fetch that started
\* earlier, and shows an older state of the store, than an 'orders' event
\* delivered before it.
C10_SnapshotsNeverGoBack ==
  \A i, j \in EventsOf("orders") :
    i < j => ~(log[j].seq < log[i].seq /\ Older(OrdersOf(j), OrdersOf(i)))

\* C11: on a connection that stays open, with reads that succeed, once the
\* store has stopped changing the last snapshot delivered eventually equals the
\* store's current set of today's orders, and stays equal to it.
C11_ConvergesToLatest ==
  <>[](connected => LastOrdersData = Stringify(CurrentSnapshot))

\* a snapshot older than one already delivered was delivered, and after it the
\* current one, which shows the order with its line item
C11_Witness ==
  /\ Len(orderItems) = 1
  /\ LastOrdersData = Stringify(CurrentSnapshot)
  /\ \E i, j, k \in EventsOf("orders") :
       i < j /\ j < k /\ Older(OrdersOf(j), OrdersOf(i)) /\ log[k].data = LastOrdersData

(***************************************************************************)
(* Order status changes: the claims.                                        *)
(***************************************************************************)
\* the step in which the PATCH handler leaves its checks and its select
PatchLookedUp == patch.pc = "parsed" /\ patch'.pc # "parsed" /\ patch'.code # 500

\* the step in which the PATCH handler's update returns
PatchUpdated == patch.pc = "update" /\ patch'.pc = "idle" /\ patch'.code # 500

\* C12: a PATCH that names an existing order and one of the four statuses is
\* let through to the update whatever the order's current status is, the update
\* answers 200, and the stored status is then the requested one.
C12_AnyStatusToAnyStatus ==
  /\ [][(PatchLookedUp /\ OrderExists(patch.orderId) /\ patch.status \in validStatuses)
          => patch'.pc = "update"]_vars
  /\ [][PatchUpdated =>
          /\ patch'.code = 200
          /\ existingOrder(patch.orderId)'.status = patch.status]_vars
  /\ [](patch.code = 200 => existingOrder(patch.orderId).status = patch.status)

\* an order found served was set back to pending
C12_Witness ==
  /\ patch.code = 200
  /\ patch.found = "served"
  /\ patch.status = "pending"
  /\ existingOrder(patch.orderId).status = "pending"

\* C13 as stated: a PATCH whose order id no order has is answered 404 (its
\* status being one of the four literals), and one whose status is not one of
\* the four literals is answered 400.
C13_UnknownIdIsNotFound ==
  (patch.pc = "idle" /\ patch.code \notin {0, 500}) =>
    /\ (~OrderExists(patch.orderId) /\ patch.status \in validStatuses) => patch.code = 404
    /\ patch.status \notin validStatuses => patch.code = 400

\* C13 as amended: a PATCH with a missing (or zero) order id or a missing
\* status is answered 400, one with a status outside the four literals is
\* answered 400, and only then one whose order id no order has is answered 404;
\* none of these requests changes a row of the store.
C13_RejectedPatchChangesNothing ==
  [][PatchLookedUp =>
       /\ (patch.orderId = 0 \/ patch.status = "") =>
             (patch'.code = 400 /\ patch'.error = "Order ID and status are required")
       /\ (patch.orderId # 0 /\ patch.status \notin validStatuses \cup {""}) =>
             (patch'.code = 400 /\ patch'.error = "Invalid status")
       /\ (patch.orderId # 0 /\ patch.status \in validStatuses /\ ~OrderExists(patch.orderId)) =>
             (patch'.code = 404 /\ patch'.error = "Order not found")
       /\ patch'.code \in {400, 404} => (patch'.pc = "idle" /\ StoreUnchanged)]_vars

\* a PATCH with a valid status for an id that no order has was answered 404,
\* the order of the store already moved on from pending
C13_Witness ==
  /\ patch.pc = "idle"
  /\ patch.code = 404
  /\ patch.status \in validStatuses
  /\ ~OrderExists(patch.orderId)
  /\ \E i \in 1..Len(orders) : orders[i].status # "pending"

\* an order row but for its status and updatedAt
Fixed(o) == [o EXCEPT !.status = "", !.updatedAt = 0]

\* C14: no step removes or alters a stored line item (its priceAtTime
\* included) or an order's id, number, total or createdAt; an order row only
\* changes in the update step of a PATCH, and then only the addressed order's
\* status and updatedAt change.
C14_PatchChangesStatusOnly ==
  [][/\ Len(orderItems') >= Len(orderItems)
     /\ \A k \in 1..Len(orderItems) : orderItems'[k] = orderItems[k]
     /\ Len(orders') >= Len(orders)
     /\ \A i \in 1..Len(orders) :
          /\ Fixed(orders'[i]) = Fixed(orders[i])
          /\ orders'[i] # orders[i] => (PatchUpdated /\ orders[i].id = patch.orderId)]_vars

\* the first order was served by a PATCH while a second order stayed pending,
\* and its line item keeps the price it was sold at after the menu price changed
C14_Witness ==
  /\ Len(orders) = 2
  /\ patch.code = 200
  /\ patch.orderId = 1
  /\ orders[1].status = "served"
  /\ orders[2].status = "pending"
  /\ \E k \in 1..Len(orderItems) :
       /\ orderItems[k].orderId = 1
       /\ orderItems[k].priceAtTime # MenuPriceNow(orderItems[k].menuItemId)

(***************************************************************************)
(* Attendance: the claims.                                                  *)
(***************************************************************************)
\* slot s holds a POST that was answered after the update of an existing record
UpdatedInPlace(s) ==
  /\ att[s].pc = "idle"
  /\ att[s].method = "POST"
  /\ att[s].existing # 0
  /\ att[s].code = 200

\* the records of one staff member and date among those a GET returns
GetOf(staffId, date, startDate, endDate) ==
  SelectSeq(AttendanceGet(startDate, endDate).attendance,
            LAMBDA r : r.staffId = staffId /\ r.date = date)

\* C15: with one request at a time, a POST for a staff member and date that
\* have a record finds it, updates its status and inserts nothing; afterwards
\* every GET over a range that contains the date returns exactly one record
\* for the pair, with the posted status.
C15_PostUpdatesInPlace ==
  /\ [](\A s \in AttProcs :
         (att[s].pc = "write" /\ att[s].method = "POST") =>
            (att[s].existing # 0 <=> AttendanceOf(att[s].staffId, att[s].date) # <<>>))
  /\ [][\A s \in AttProcs :
         (att[s].pc = "write" /\ att[s].method = "POST" /\ att[s].existing # 0
            /\ att'[s].pc = "idle") =>
              (Len(attendance') = Len(attendance) /\ attSeq' = attSeq /\ att'[s].code = 200)]_vars
  /\ [](\A s \in AttProcs : UpdatedInPlace(s) =>
         \A a, b \in 1..MaxDates : (a <= att[s].date /\ att[s].date <= b) =>
            LET got == GetOf(att[s].staffId, att[s].date, a, b)
            IN  Len(got) = 1 /\ got[1].status = att[s].status)

\* a record marked present was set to absent in place, next to the record of
\* another date
C15_Witness ==
  \E s \in AttProcs :
    /\ UpdatedInPlace(s)
    /\ att[s].status = "absent"
    /\ Len(attendance) = 2
    /\ \E i \in 1..Len(attendance) :
         attendance[i].id = att[s].existing /\ attendance[i].status = "absent"

\* C16: the attendance table never holds two records of the same staff
\* member and date.
C16_OneRecordPerPair ==
  \A i, j \in 1..Len(attendance) :
    (attendance[i].staffId = attendance[j].staffId /\ attendance[i].date = attendance[j].date)
      => i = j

(***************************************************************************)
(* Daily balance: the claims.                                               *)
(***************************************************************************)
\* the step in which the balance handler's update returns
BalUpdated == bal.pc = "update" /\ bal'.pc = "reselect"

\* C17: a balance POST for a date that has a record takes the update path;
\* its update writes openingBalance only if the body has it and closingBalance
\* only if the body has it, keeps the record's other column, id and date, adds
\* no record and leaves the record of every other date as it was; the response
\* shows the record as stored.
C17_UpdateOnlySuppliedFields ==
  /\ [](bal.pc = "update" => BalanceOf(bal.date) # <<>>)
  /\ [][BalUpdated =>
          /\ Len(balances') = Len(balances)
          /\ \A i \in 1..Len(balances) :
               IF balances[i].date = bal.date
               THEN /\ balances'[i].id = balances[i].id
                    /\ balances'[i].date = balances[i].date
                    /\ balances'[i].openingBalance =
                         (IF bal.openingBalance.kind = "number" THEN bal.openingBalance.value
                          ELSE balances[i].openingBalance)
                    /\ balances'[i].closingBalance =
                         (IF bal.closingBalance.kind = "number" THEN bal.closingBalance
                          ELSE balances[i].closingBalance)
               ELSE balances'[i] = balances[i]]_vars
  /\ [][(bal'.pc = "idle" /\ bal'.code = 200) => bal'.result = <<BalanceOf(bal.date)'[1]>>]_vars

\* a POST with only closingBalance set the closing balance of a record that
\* keeps its opening balance, the record of another date still without one
C17_Witness ==
  /\ bal.pc = "idle"
  /\ bal.code = 200
  /\ bal.existing # 0
  /\ bal.openingBalance = Undefined
  /\ bal.result[1].openingBalance = 10000
  /\ bal.result[1].closingBalance = Num(18000)
  /\ \E i \in 1..Len(balances) : balances[i].date # bal.date /\ balances[i].closingBalance = Null

\* the step in which the balance handler leaves its checks and its select
BalFound == bal.pc = "parsed" /\ bal'.pc # "parsed"

\* C18: a balance POST without openingBalance for a date that has no record
\* is answered 400, and no step of a request so answered writes to the
\* table: the date still has no record afterwards.
C18_NewDateNeedsOpening ==
  /\ [][(BalFound /\ bal.openingBalance = Undefined /\ BalanceOf(bal.date) = <<>>) =>
          /\ bal'.pc = "idle"
          /\ bal'.code = 400
          /\ balances' = balances
          /\ balSeq' = balSeq]_vars
  /\ [](bal.error = "openingBalance is required for new records" =>
          (bal.code = 400 /\ BalanceOf(bal.date) = <<>>))

\* a POST with only closingBalance for a date without a record was rejected,
\* another date's record in the table
C18_Witness ==
  /\ bal.pc = "idle"
  /\ bal.code = 400
  /\ bal.error = "openingBalance is required for new records"
  /\ bal.closingBalance = Num(18000)
  /\ BalanceOf(bal.date) = <<>>
  /\ balances # <<>>

(***************************************************************************)
(* The session gate and the login: the claims.                              *)
(***************************************************************************)
\* the path is one of the four protected ones or lies under one of them
UnderProtected(pathname) ==
  /\ Len(pathname) >= 2
  /\ pathname[1] = "/"
  /\ pathname[2] \in {"dashboard", "expenses", "attendance", "wages"}
  /\ (Len(pathname) = 2 \/ pathname[3] = "/")

\* C19: a request is redirected to /login exactly when its path is one of
\* /dashboard, /expenses, /attendance, /wages or lies under one of them and the
\* session cookie is absent or empty; every other request is let through.
C19_GateRedirectsExactlyProtected ==
  gate.decision.kind # "none" =>
    IF UnderProtected(gate.pathname) /\ (gate.cookie = <<>> \/ gate.cookie = <<"">>)
    THEN gate.decision = Redirect(<<"/", "login">>)
    ELSE gate.decision = NextResponse

\* a path under /dashboard with an empty session cookie was redirected
C19_Witness ==
  /\ gate.pathname = <<"/", "dashboard", "/", "x">>
  /\ gate.cookie = <<"">>
  /\ gate.decision = Redirect(<<"/", "login">>)

\* what the client sees of a login response
Observable(l) == [status |-> l.status, error |-> l.error, cookie |-> l.cookie]

\* an answered attempt that sent both a username and a password
Attempt(s) == login[s].status \notin {0, 500} /\ login[s].username # "" /\ login[s].password # ""

UnknownUser(s) == UsersNamed(login[s].username) = <<>>

WrongPassword(s) ==
  /\ UsersNamed(login[s].username) # <<>>
  /\ hashPassword(login[s].password) # UsersNamed(login[s].username)[1].passwordHash

DayOfYear(dateString) == (dateString[1] - 1) * 31 + dateString[2]

RangeQuery(g) ==
  /\ isValidDateString(g.startDate)
  /\ isValidDateString(g.endDate)
  /\ g.category = ""

Range(list) == {list[i] : i \in 1..Len(list)}

\* C21: a GET with (valid) startDate and endDate and no category answers with
\* exactly the stored expenses whose date d has startDate <= d <= endDate in
\* calendar order, each once, and grandTotal is the sum of their amounts.
C21_RangeIsInclusiveAndTotalled ==
  (expGet.status = 200 /\ RangeQuery(expGet)) =>
    /\ Range(expGet.expenses) =
         {e \in Range(expenses) :
            /\ DayOfYear(expGet.startDate) <= DayOfYear(e.date)
            /\ DayOfYear(e.date) <= DayOfYear(expGet.endDate)}
    /\ Cardinality(Range(expGet.expenses)) = Len(expGet.expenses)
    /\ expGet.grandTotal = grandTotalOf(expGet.expenses)
    /\ expGet.grandTotal =
         100000 * Cardinality({e \in Range(expGet.expenses) : e.category = "rent"})
         + 5000 * Cardinality({e \in Range(expGet.expenses) : e.category = "ingredients"})

\* a range that ends on the date of a stored row and leaves another row out
C21_Witness ==
  /\ expGet.status = 200
  /\ RangeQuery(expGet)
  /\ Len(expenses) = 2
  /\ expenses[1].date = expGet.endDate
  /\ TextLt(expenses[2].date, expGet.startDate)
  /\ expGet.expenses = <<expenses[1]>>
  /\ expGet.grandTotal = expenses[1].amount

(***************************************************************************)
(* The kitchen display page: the claims.                                    *)
(***************************************************************************)
\* a step in which the page surfaces an error message
ErrorSurfaced == pageError' # pageError /\ pageError' # NoError

\* C22: a heartbeat event and an in-band error event leave the displayed order
\* list as it is; the heartbeat changes nothing but the connected mark, and the
\* error event changes nothing but the error message.
C22_HeartbeatAndErrorChangeNothingElse ==
  [][/\ ((\E s \in Sources : OnHeartbeat(s)) \/ ErrorSurfaced) => pageOrders' = pageOrders
     /\ (\E s \in Sources : OnHeartbeat(s)) =>
          UNCHANGED <<pageError, sources, eventSourceRef, timers, seenOrderIds, notifications>>
     /\ ErrorSurfaced =>
          UNCHANGED <<isConnected, sources, eventSourceRef, timers, seenOrderIds, notifications>>
    ]_vars

\* C23: while the page is mounted, a connection that was closed is followed
\* by a new connection; and the step that schedules the reconnect closes the
\* connection it is about.
C23_FailureLeadsToReconnect ==
  /\ \A n \in 1..MaxSources :
       (mounted = "yes" /\ Len(sources) = n /\ sources[n] = "closed")
         ~> (mounted # "yes" \/ Len(sources) > n)
  /\ [][timers' > timers =>
          \E s \in Sources : sources[s] = "open" /\ sources'[s] = "closed"]_vars

\* the connection failed before any event came, and a second one is open
C23_Witness ==
  /\ mounted = "yes"
  /\ sources = <<"closed", "open">>
  /\ firstSnapshotIds = <<>>
  /\ pageError = NoError
  /\ timers = 0

\* C27: once the page is unmounted none of its connections is open
C27_NoConnectionAfterUnmount ==
  mounted = "gone" => \A s \in Sources : sources[s] = "closed"

\* C29: an error message shown on the display is eventually cleared once
\* the feed's reads succeed again, the orders data being what it was in the
\* last snapshot sent before the error.
C29_ErrorEventuallyCleared == (pageError # NoError) ~> (pageError = NoError)

\* the display shows the error over the snapshot it received before, which
\* is still what the store holds
C29_Witness ==
  /\ pageError = FetchErrorMessage
  /\ pageOrders # <<>>
  /\ pageOrders = CurrentSnapshot
  /\ lastDataHash = Stringify(CurrentSnapshot)

NotifiedIds == {notifications[k] : k \in 1..Len(notifications)}

\* C30: no order id is notified twice, and no id of the first snapshot the
\* page received is ever notified.
C30_AlertOncePerOrder ==
  /\ Cardinality(NotifiedIds) = Len(notifications)
  /\ firstSnapshotIds # <<>> => NotifiedIds \cap firstSnapshotIds[1] = {}

\* order 1 came with the first snapshot, order 2 later; after a reconnect
\* both came again, and only order 2 was ever notified
C30_Witness ==
  /\ firstSnapshotIds = << {1} >>
  /\ notifications = <<2>>
  /\ Len(sources) >= 2
  /\ IdsOf(pageOrders) = {1, 2}
  /\ sources[Len(sources)] = "open"

(***************************************************************************)
(* Staff: the claims.                                                       *)
(***************************************************************************)
ActiveStaff(id) == \E i \in 1..Len(staff) : staff[i].id = id /\ staff[i].active

\* C24: an attendance POST gets past the check of the staff member only if
\* the staff member exists and is active; otherwise it is rejected and the
\* attendance table stays as it is.
C24_InactiveStaffRejected ==
  [][\A s \in AttProcs :
       (att[s].pc = "parsed" /\ att[s].method = "POST" /\ att'[s] # att[s]
          /\ ~ActiveStaff(att[s].staffId))
         => (att'[s].pc = "idle" /\ att'[s].code >= 400 /\ attendance' = attendance)]_vars

\* C25: no step removes or renumbers a staff row, and every attendance
\* record's staffId is the id of a staff row.
C25_StaffRowsStay ==
  /\ [][\A i \in 1..Len(staff) :
          Len(staff') >= i /\ staff'[i].id = staff[i].id /\ staff'[i].name = staff[i].name]_vars
  /\ [](\A k \in 1..Len(attendance) : StaffExists(attendance[k].staffId))

\* staff member 1 was deleted after attendance was recorded for them: the
\* row is there, inactive, and the attendance record still refers to it
C25_Witness ==
  /\ stf.pc = "idle"
  /\ stf.code = 200
  /\ stf.staffId = 1
  /\ StaffExists(1)
  /\ ~ActiveStaff(1)
  /\ \E k \in 1..Len(attendance) : attendance[k].staffId = 1

(***************************************************************************)
(* The feed's snapshots and the day windows: the claims.                    *)
(***************************************************************************)
\* the sum of quantity x priceAtTime over the items a snapshot shows for an order
ShownTotal(o) == SumSeq([k \in 1..Len(o.items) |-> o.items[k].quantity * o.items[k].priceAtTime])

\* C26: every order of every snapshot the feed sent carries all its line
\* items: its total is the sum of quantity x priceAtTime over the items shown.
C26_SnapshotOrdersAreComplete ==
  \A k \in EventsOf("orders") :
    \A j \in 1..Len(OrdersOf(k)) : OrdersOf(k)[j].total = ShownTotal(OrdersOf(k)[j])

\* the dashboard selects the orders of the day it was asked at
DashSelectsToday ==
  dash.pc = "select" /\ dash'.pc = "top" /\ dash.date = dash.now \div DayMs

\* C28: the dashboard's orders of today are the orders that order numbering
\* and the feed's snapshot take for today's (same store, same instant), and
\* they are all the orders created today.
C28_TodayWindowsAgree ==
  [][DashSelectsToday =>
       /\ dash'.dayOrders = todaysOrders(dash.now)
       /\ dash'.dayOrders = SelectSeq(orders, LAMBDA o : DayOf(o) = dash.date)]_vars

====
